---- MODULE Spec2Model ----
(***************************************************************************)
(* Model of the agent execution dispatcher (src/lib/jaf/runner.ts), the    *)
(* execute route (src/app/api/agents/[id]/execute/route.ts), the tool      *)
(* mutation routes (src/app/api/tools/route.ts, tools/[id]/route.ts) and   *)
(* the agent create/update routes (src/app/api/agents/...).                *)
(*                                                                         *)
(* Strings that the code inspects are sequences: error messages are        *)
(* sequences of words, model names and result texts sequences of           *)
(* characters, so that includes() and split() are computed, not assumed.   *)
(* An optional value is a sequence of length at most one.                  *)
(***************************************************************************)
EXTENDS Integers, Sequences, FiniteSets, TLC

(***************************************************************************)
(* Bounds                                                                  *)
(***************************************************************************)
MaxClock == 2

Dispatches == {"d1", "d2"}
AgentIds == {"a1", "a2", "a3"}
ApiKeys == {"undefined", "sk-1"}
BaseURLs == {"undefined", "http://proxy"}
Inputs == {"", "hi"}

(***************************************************************************)
(* Optional values and JavaScript truthiness of strings                    *)
(***************************************************************************)
None == <<>>
Some(x) == <<x>>
IsSome(o) == Len(o) = 1
Get(o) == o[1]

Truthy(s) == s # "undefined" /\ s # ""
OrElse(a, b) == IF Truthy(a) THEN a ELSE b

(***************************************************************************)
(* String.prototype.includes on sequences                                  *)
(***************************************************************************)
Includes(s, sub) ==
  \E i \in 1..(Len(s) + 1) : i + Len(sub) - 1 <= Len(s) /\ SubSeq(s, i, i + Len(sub) - 1) = sub

(***************************************************************************)
(* result.split(' ') and the chunks streamJAFAgent yields                  *)
(***************************************************************************)
RECURSIVE SplitFrom(_, _, _)
SplitFrom(s, i, cur) ==
  IF i > Len(s) THEN <<cur>>
  ELSE IF s[i] = " " THEN <<cur>> \o SplitFrom(s, i + 1, <<>>)
  ELSE SplitFrom(s, i + 1, Append(cur, s[i]))

Split(s) == SplitFrom(s, 1, <<>>)

StreamChunk(word) == word \o <<" ">>

(***************************************************************************)
(* Results the agent run can return and bodies a vendor can answer with    *)
(***************************************************************************)
Results == { <<>>, <<"a">>, <<"a", " ", "b">> }

VendorBodies ==
  { <<"rate", "limit">>, <<"Incorrect", "API", "key">>, <<"model", "not", "found">>,
    <<"API", "key", "not", "found">> }

(***************************************************************************)
(* Error messages                                                          *)
(***************************************************************************)
MsgAgentNotFound(id) == <<"Agent", "not", "found", id>>
MsgApiKeyRequired(p) == <<"API", "key", "required", "for", "provider", p>>
MsgJAFError(body) == <<"JAF", "execution", "error">> \o body
MsgSyntaxError == <<"Unexpected", "token">>
MsgForeignKey == <<"Foreign", "key", "constraint", "violated">>
MsgRecordNotFound == <<"Record", "to", "update", "not", "found">>

(***************************************************************************)
(* Model names and provider selection                                      *)
(***************************************************************************)
ModelGpt4 == <<"g", "p", "t", "-", "4">>
ModelLlama3 == <<"l", "l", "a", "m", "a", "3">>
Models == {ModelGpt4, ModelLlama3}

LiteLLMPrefixes ==
  { <<"a","n","t","h","r","o","p","i","c">>, <<"g","e","m","i","n","i">>,
    <<"c","o","h","e","r","e">>, <<"r","e","p","l","i","c","a","t","e">>,
    <<"t","o","g","e","t","h","e","r","_","a","i">>, <<"a","z","u","r","e">>,
    <<"o","p","e","n","r","o","u","t","e","r">> }

RECURSIVE BeforeSlash(_)
BeforeSlash(m) ==
  IF m = <<>> \/ Head(m) = "/" THEN <<>> ELSE <<Head(m)>> \o BeforeSlash(Tail(m))

EnvNone ==
  [USE_LITELLM |-> "undefined", NEXT_PUBLIC_USE_LITELLM |-> "undefined",
   LITELLM_URL |-> "undefined", NEXT_PUBLIC_LITELLM_URL |-> "undefined",
   LITELLM_API_KEY |-> "undefined", ENABLE_DB_TOOL_CODE |-> "undefined"]

getProviderFromModel_NoPrefix(model, e) ==
  IF \/ e.USE_LITELLM = "true"
     \/ e.NEXT_PUBLIC_USE_LITELLM = "true"
     \/ Truthy(e.LITELLM_URL)
     \/ Truthy(e.NEXT_PUBLIC_LITELLM_URL)
  THEN "litellm"
  ELSE IF Includes(model, <<"g","p","t">>) THEN "openai"
  ELSE IF Includes(model, <<"c","l","a","u","d","e">>) THEN "anthropic"
  ELSE IF Includes(model, <<"g","e","m","i","n","i">>) THEN "google"
  ELSE IF \/ Includes(model, <<"l","l","a","m","a">>)
          \/ Includes(model, <<"m","i","x","t","r","a","l">>)
          \/ Includes(model, <<"m","i","s","t","r","a","l">>)
  THEN "litellm"
  ELSE "openai"

getProviderFromModel(model, e) ==
  IF \/ e.USE_LITELLM = "true"
     \/ e.NEXT_PUBLIC_USE_LITELLM = "true"
     \/ Truthy(e.LITELLM_URL)
     \/ Truthy(e.NEXT_PUBLIC_LITELLM_URL)
  THEN "litellm"
  ELSE IF Includes(model, <<"/">>) /\ BeforeSlash(model) \in LiteLLMPrefixes THEN "litellm"
  ELSE IF Includes(model, <<"g","p","t">>) THEN "openai"
  ELSE IF Includes(model, <<"c","l","a","u","d","e">>) THEN "anthropic"
  ELSE IF Includes(model, <<"g","e","m","i","n","i">>) THEN "google"
  ELSE IF \/ Includes(model, <<"l","l","a","m","a">>)
          \/ Includes(model, <<"m","i","x","t","r","a","l">>)
          \/ Includes(model, <<"m","i","s","t","r","a","l">>)
  THEN "litellm"
  ELSE "openai"

\* Environments of the dispatcher: no gateway, the gateway flag, a gateway URL and key
EnvGateway ==
  [EnvNone EXCEPT !.LITELLM_URL = "http://gateway", !.LITELLM_API_KEY = "gw-key"]

Envs == {EnvNone, [EnvNone EXCEPT !.USE_LITELLM = "true"], EnvGateway}

(***************************************************************************)
(* createModelProvider: for litellm the base URL and the key are computed  *)
(* from the configuration and the environment, and makeLiteLLMProvider is  *)
(* then called with two literals. The other providers have no gateway.     *)
(***************************************************************************)
makeLiteLLMProvider(baseURL, apiKey) == [baseURL |-> baseURL, apiKey |-> apiKey]

createModelProvider(config, e) ==
  IF config.provider = "litellm"
  THEN LET baseURL == OrElse(config.baseURL,
                        OrElse(e.LITELLM_URL,
                          OrElse(e.NEXT_PUBLIC_LITELLM_URL, "http://localhost:4000")))
           apiKey == OrElse(config.apiKey, OrElse(e.LITELLM_API_KEY, "anything"))
       IN  Some(makeLiteLLMProvider("http://localhost:4000", "sk-1234"))
  ELSE None

(***************************************************************************)
(* State                                                                   *)
(***************************************************************************)
VARIABLES
  agentTable,      \* Agent rows by id (prisma.agent)
  executions,      \* AgentExecution rows (prisma.agentExecution)
  nextId,          \* source of fresh row ids
  now,             \* Date.now()
  env,             \* process.env
  disp,            \* per request: position and locals of runAgent / streamAgent
  resp,            \* per request: what the execute route has sent to the client
  hist,            \* per request: what the dispatch has done so far
  toolTable,       \* Tool rows by id (prisma.tool)
  toolReq,         \* per tool request: position and locals of the tool routes
  knowledgeTable,  \* KnowledgeSource rows (prisma.knowledgeSource)
  agentReq,        \* per agent request: position and locals of the agent routes
  sel,             \* a call of getProviderFromModel: its argument and its result
  load,            \* a call of loadToolsForAgent: its position, locals and result
  call             \* a call of a pure helper of the library: its input and output

execVars == <<agentTable, executions, nextId, now, env, disp, resp, hist>>
toolVars == <<toolTable, toolReq>>
agentVars == <<knowledgeTable, agentReq>>
libVars == <<sel, load, call>>
vars == <<agentTable, executions, nextId, now, env, disp, resp, hist,
          toolTable, toolReq, knowledgeTable, agentReq, sel, load, call>>

Absent == [absent |-> TRUE]

AgentRows == [model : Models, modelConfig : {"null", "{}", "{bad"}]

(***************************************************************************)
(* parseModelConfig: a stored string that is no JSON makes JSON.parse throw *)
(***************************************************************************)
parseModelConfigThrows(row) == row.modelConfig = "{bad"

(***************************************************************************)
(* The execute route's classification of a thrown error                    *)
(***************************************************************************)
ErrorStatus_ApiKeyFirst(msg) ==
  IF Includes(msg, <<"API", "key">>) THEN 401
  ELSE IF Includes(msg, <<"not", "found">>) THEN 404
  ELSE 500

ErrorStatus(msg) ==
  IF Includes(msg, <<"not", "found">>) THEN 404
  ELSE IF Includes(msg, <<"API", "key">>) THEN 401
  ELSE 500

(***************************************************************************)
(* What the route does with the outcome of runAgent / streamAgent          *)
(***************************************************************************)
JsonError(r, msg) == [r EXCEPT !.status = ErrorStatus(msg), !.error = Some(msg)]

JsonResult(r, result) == [r EXCEPT !.status = 200, !.body = Some(result)]

\* controller.enqueue throws once the client has cancelled the stream
CanEnqueue(r) == ~r.clientGone /\ ~r.closed

SseError_NoFrame(r, msg) == [r EXCEPT !.closed = TRUE]

SseError(r, msg) ==
  IF CanEnqueue(r)
  THEN [r EXCEPT !.frames = Append(@, [type |-> "error", text |-> msg]), !.closed = TRUE]
  ELSE [r EXCEPT !.closed = TRUE]

SseDone(r) ==
  IF CanEnqueue(r)
  THEN [r EXCEPT !.frames = Append(@, [type |-> "done", text |-> <<>>]), !.closed = TRUE]
  ELSE [r EXCEPT !.closed = TRUE]

RouteThrow(d, msg) ==
  IF disp[d].streaming THEN SseError(resp[d], msg) ELSE JsonError(resp[d], msg)

(***************************************************************************)
(* createExecutionRecord / updateExecutionRecord                           *)
(***************************************************************************)
MetadataOf(d) ==
  [apiKey |-> disp[d].apiKey, baseURL |-> disp[d].baseURL,
   streaming |-> IF disp[d].streaming THEN "true" ELSE "undefined",
   timestamp |-> now]

NewExecutionRow(d) ==
  [id |-> nextId, agentId |-> disp[d].agentId, input |-> disp[d].input,
   status |-> "running", output |-> None, error |-> None, durationMs |-> None,
   completedAt |-> None, metadata |-> MetadataOf(d)]

RowExists(id) == IsSome(id) /\ \E r \in executions : r.id = Get(id)
RowOf_AnyRow(id) == CHOOSE r \in executions : TRUE
RowOf(id) == CHOOSE r \in executions : r.id = Get(id)

UpdatedRows(id, status, output, error, durationMs) ==
  LET r == RowOf(id)
  IN  (executions \ {r}) \cup
      {[r EXCEPT !.status = status,
                 !.output = IF IsSome(output) THEN output ELSE @,
                 !.error = IF IsSome(error) THEN error ELSE @,
                 !.durationMs = Some(durationMs),
                 !.completedAt = Some(now)]}

(***************************************************************************)
(* Initial state of the dispatcher                                         *)
(***************************************************************************)
IdleDisp ==
  [pc |-> "idle", agentId |-> "a1", input |-> "", apiKey |-> "undefined",
   baseURL |-> "undefined", streaming |-> FALSE, execId |-> None, startTime |-> 0,
   dbAgent |-> None, provider |-> "none", words |-> <<>>, fullOutput |-> <<>>,
   caught |-> None, outcome |-> "none", thrown |-> None, gateway |-> None]

OffDisp == [IdleDisp EXCEPT !.pc = "off"]

IdleResp ==
  [status |-> 0, error |-> None, body |-> None, frames |-> <<>>,
   closed |-> FALSE, clientGone |-> FALSE]

IdleHist ==
  [agentExisted |-> FALSE, created |-> None, terminalWrites |-> 0, lastWrite |-> None,
   assembled |-> FALSE, providerCalls |-> 0, runResult |-> None, firstError |-> None]

IdleSel == [pc |-> "idle", model |-> <<>>, provider |-> "none"]

IdleLoad ==
  [pc |-> "off", toolIds |-> <<>>, uniqueIds |-> <<>>, builtInByName |-> <<>>,
   unresolved |-> <<>>, queries |-> 0, dbTools |-> <<>>, result |-> <<>>, threw |-> None,
   compiled |-> {}, caller |-> "none", validation |-> "none"]

\* No library helper has been called
IdleCall == [fn |-> "none"]

InitLib ==
  /\ sel = IdleSel
  /\ load = IdleLoad
  /\ call = IdleCall

InitOther ==
  /\ toolTable = [t \in {} |-> Absent]
  /\ toolReq = [q \in {} |-> Absent]
  /\ knowledgeTable = [a \in AgentIds |-> <<>>]
  /\ agentReq = [q \in {} |-> Absent]
  /\ InitLib

Init ==
  /\ \E row \in AgentRows : agentTable = [a \in AgentIds |-> IF a = "a1" THEN row ELSE Absent]
  /\ executions = {}
  /\ nextId = 1
  /\ now = 0
  /\ env \in Envs
  /\ disp = [d \in Dispatches |-> IF d = "d1" THEN IdleDisp ELSE OffDisp]
  /\ resp = [d \in Dispatches |-> IdleResp]
  /\ hist = [d \in Dispatches |-> IdleHist]
  /\ InitOther


(***************************************************************************)
(* POST /agents/{id}/execute: the request is parsed; without input the     *)
(* answer is 400; a streaming request is answered with the event stream,   *)
(* whose start() pulls streamAgent; otherwise runAgent is awaited.         *)
(***************************************************************************)
runAgent_firstStep_NoRecord == "findAgent"
runAgent_firstStep == "createRecord"

Post(d, agentId, input, apiKey, baseURL, streaming) ==
  /\ disp[d].pc = "idle"
  /\ IF ~Truthy(input)
     THEN /\ disp' = [disp EXCEPT ![d].pc = "done", ![d].agentId = agentId,
                                  ![d].input = input, ![d].streaming = streaming]
          /\ resp' = [resp EXCEPT ![d].status = 400]
     ELSE /\ disp' = [disp EXCEPT ![d].pc = runAgent_firstStep, ![d].agentId = agentId,
                                  ![d].input = input, ![d].apiKey = apiKey,
                                  ![d].baseURL = baseURL, ![d].streaming = streaming]
          /\ resp' = [resp EXCEPT ![d].status = IF streaming THEN 200 ELSE 0]
  /\ hist' = [hist EXCEPT ![d].agentExisted = (agentTable[agentId] # Absent)]
  /\ UNCHANGED <<agentTable, executions, nextId, now, env>>

(***************************************************************************)
(* runAgent / streamAgent, first await: createExecutionRecord. The row     *)
(* references the agent (foreign key), so the insert throws for an agent   *)
(* id that has no row; the throw is outside the try block.                 *)
(***************************************************************************)
CreateExecutionRecord(d) ==
  /\ disp[d].pc = "createRecord"
  /\ IF agentTable[disp[d].agentId] # Absent
     THEN /\ executions' = executions \cup {NewExecutionRow(d)}
          /\ nextId' = nextId + 1
          /\ disp' = [disp EXCEPT ![d].pc = "findAgent", ![d].execId = Some(nextId),
                                  ![d].startTime = now]
          /\ hist' = [hist EXCEPT ![d].created = Some(NewExecutionRow(d))]
          /\ UNCHANGED resp
     ELSE /\ disp' = [disp EXCEPT ![d].pc = "done", ![d].outcome = "threw",
                                  ![d].thrown = Some(MsgForeignKey)]
          /\ resp' = [resp EXCEPT ![d] = RouteThrow(d, MsgForeignKey)]
          /\ UNCHANGED <<executions, nextId, hist>>
  /\ UNCHANGED <<agentTable, now, env>>

(***************************************************************************)
(* runJAFAgent / streamJAFAgentExecution: prisma.agent.findUnique          *)
(***************************************************************************)
FindAgent(d) ==
  /\ disp[d].pc = "findAgent"
  /\ IF agentTable[disp[d].agentId] = Absent
     THEN /\ disp' = [disp EXCEPT ![d].pc = "persistFailed",
                                  ![d].caught = Some(MsgAgentNotFound(disp[d].agentId))]
          /\ hist' = [hist EXCEPT ![d].firstError = Some(MsgAgentNotFound(disp[d].agentId))]
     ELSE /\ disp' = [disp EXCEPT ![d].pc = "assemble",
                                  ![d].dbAgent = Some(agentTable[disp[d].agentId])]
          /\ UNCHANGED hist
  /\ UNCHANGED <<agentTable, executions, nextId, now, env, resp>>

(***************************************************************************)
(* createJAFAgentFromDB, getProviderFromModel and the API key check        *)
(***************************************************************************)
CreateJAFAgentFromDB(d) ==
  /\ disp[d].pc = "assemble"
  /\ LET row == Get(disp[d].dbAgent)
         provider == getProviderFromModel(row.model, env)
     IN  IF parseModelConfigThrows(row)
         THEN /\ disp' = [disp EXCEPT ![d].pc = "persistFailed",
                                      ![d].caught = Some(MsgSyntaxError)]
              /\ hist' = [hist EXCEPT ![d].assembled = TRUE,
                                      ![d].firstError = Some(MsgSyntaxError)]
         ELSE IF provider = "litellm"
         THEN /\ disp' = [disp EXCEPT ![d].pc = "callProvider", ![d].provider = provider,
                            ![d].apiKey = OrElse(disp[d].apiKey,
                                                 OrElse(env.LITELLM_API_KEY, "default"))]
              /\ hist' = [hist EXCEPT ![d].assembled = TRUE]
         ELSE IF ~Truthy(disp[d].apiKey)
         THEN /\ disp' = [disp EXCEPT ![d].pc = "persistFailed", ![d].provider = provider,
                                      ![d].caught = Some(MsgApiKeyRequired(provider))]
              /\ hist' = [hist EXCEPT ![d].assembled = TRUE,
                                      ![d].firstError = Some(MsgApiKeyRequired(provider))]
         ELSE /\ disp' = [disp EXCEPT ![d].pc = "callProvider", ![d].provider = provider]
              /\ hist' = [hist EXCEPT ![d].assembled = TRUE]
  /\ UNCHANGED <<agentTable, executions, nextId, now, env, resp>>

(***************************************************************************)
(* executeJAFAgent: the model provider is created, then the run either     *)
(* returns a text or fails with a vendor body. streamJAFAgent splits the   *)
(* text into words to yield.                                               *)
(***************************************************************************)
ModelProviderConfig(d) ==
  [provider |-> disp[d].provider, apiKey |-> disp[d].apiKey, baseURL |-> disp[d].baseURL]

ExecuteOk(d, text) ==
  /\ disp[d].pc = "callProvider"
  /\ disp' = [disp EXCEPT ![d].pc = IF disp[d].streaming THEN "yield" ELSE "persistCompleted",
                          ![d].words = IF disp[d].streaming THEN Split(text) ELSE <<>>,
                          ![d].fullOutput = IF disp[d].streaming THEN <<>> ELSE text,
                          ![d].gateway = createModelProvider(ModelProviderConfig(d), env)]
  /\ hist' = [hist EXCEPT ![d].providerCalls = @ + 1, ![d].runResult = Some(text)]
  /\ UNCHANGED <<agentTable, executions, nextId, now, env, resp>>

ExecuteError(d, body) ==
  /\ disp[d].pc = "callProvider"
  /\ disp' = [disp EXCEPT ![d].pc = "persistFailed", ![d].caught = Some(MsgJAFError(body)),
                          ![d].gateway = createModelProvider(ModelProviderConfig(d), env)]
  /\ hist' = [hist EXCEPT ![d].providerCalls = @ + 1,
                          ![d].firstError = Some(MsgJAFError(body))]
  /\ UNCHANGED <<agentTable, executions, nextId, now, env, resp>>

(***************************************************************************)
(* streamAgent yields one chunk; the route enqueues it as a content frame. *)
(* If the client is gone the enqueue throws, the for-await loop closes the *)
(* generator at its yield (no catch block runs for a return), and the      *)
(* route's catch fails to enqueue the error frame.                         *)
(***************************************************************************)
\* Where streamAgent goes when its for-await loop has ended: the completed
\* update, and only then the return that lets the route send the sentinel
streamAgent_afterLoop_SentinelFirst == "sendDone"

streamAgent_afterLoop == "persistCompleted"

StreamYield(d) ==
  /\ disp[d].pc = "yield"
  /\ LET chunk == StreamChunk(Head(disp[d].words))
     IN  IF CanEnqueue(resp[d])
         THEN /\ disp' = [disp EXCEPT ![d].fullOutput = @ \o chunk,
                                      ![d].words = Tail(@),
                                      ![d].pc = IF Len(disp[d].words) = 1
                                                THEN streamAgent_afterLoop ELSE "yield"]
              /\ resp' = [resp EXCEPT ![d].frames =
                                         Append(@, [type |-> "content", text |-> chunk])]
         ELSE /\ disp' = [disp EXCEPT ![d].fullOutput = @ \o chunk,
                                      ![d].pc = "done", ![d].outcome = "abandoned"]
              /\ resp' = [resp EXCEPT ![d].closed = TRUE]
  /\ UNCHANGED <<agentTable, executions, nextId, now, env, hist>>

(***************************************************************************)
(* The terminal updates. updateExecutionRecord throws when the row is gone *)
(* (the agent was deleted and the delete cascaded).                        *)
(***************************************************************************)
PersistCompleted(d) ==
  /\ disp[d].pc = "persistCompleted"
  /\ LET durationMs == now - disp[d].startTime
     IN  IF RowExists(disp[d].execId)
         THEN /\ executions' = UpdatedRows(disp[d].execId, "completed",
                                           Some(disp[d].fullOutput), None, durationMs)
              /\ hist' = [hist EXCEPT ![d].terminalWrites = @ + 1,
                            ![d].lastWrite = Some([status |-> "completed",
                                                   output |-> Some(disp[d].fullOutput),
                                                   error |-> None,
                                                   durationMs |-> durationMs])]
              /\ disp' = [disp EXCEPT ![d].pc = IF disp[d].streaming THEN "sendDone" ELSE "done",
                            ![d].outcome = IF disp[d].streaming THEN "finished" ELSE "returned"]
              /\ resp' = [resp EXCEPT ![d] =
                            IF disp[d].streaming THEN @
                            ELSE JsonResult(resp[d],
                                   [executionId |-> Get(disp[d].execId),
                                    output |-> disp[d].fullOutput,
                                    durationMs |-> durationMs])]
         ELSE /\ disp' = [disp EXCEPT ![d].pc = "persistFailed",
                                      ![d].caught = Some(MsgRecordNotFound)]
              /\ UNCHANGED <<executions, hist, resp>>
  /\ UNCHANGED <<agentTable, nextId, now, env>>

\* The generator has returned: the route's loop ends and it enqueues the
\* sentinel and closes the stream
SendDone(d) ==
  /\ disp[d].pc = "sendDone"
  /\ disp' = [disp EXCEPT ![d].pc = "done", ![d].outcome = "finished"]
  /\ resp' = [resp EXCEPT ![d] = SseDone(resp[d])]
  /\ UNCHANGED <<agentTable, executions, nextId, now, env, hist>>

PersistFailed(d) ==
  /\ disp[d].pc = "persistFailed"
  /\ LET durationMs == now - disp[d].startTime
         msg == Get(disp[d].caught)
     IN  IF RowExists(disp[d].execId)
         THEN /\ executions' = UpdatedRows(disp[d].execId, "failed", None, Some(msg), durationMs)
              /\ hist' = [hist EXCEPT ![d].terminalWrites = @ + 1,
                            ![d].lastWrite = Some([status |-> "failed", output |-> None,
                                                   error |-> Some(msg),
                                                   durationMs |-> durationMs])]
              /\ disp' = [disp EXCEPT ![d].pc = "done", ![d].outcome = "threw",
                                      ![d].thrown = Some(msg)]
              /\ resp' = [resp EXCEPT ![d] = RouteThrow(d, msg)]
         ELSE /\ disp' = [disp EXCEPT ![d].pc = "done", ![d].outcome = "threw",
                                      ![d].thrown = Some(MsgRecordNotFound)]
              /\ resp' = [resp EXCEPT ![d] = RouteThrow(d, MsgRecordNotFound)]
              /\ UNCHANGED <<executions, hist>>
  /\ UNCHANGED <<agentTable, nextId, now, env>>

(***************************************************************************)
(* The environment of a dispatch: the client of a streaming response goes  *)
(* away, DELETE /agents/{id} removes an agent (its executions cascade),    *)
(* time passes.                                                            *)
(***************************************************************************)
ClientCancel(d) ==
  /\ disp[d].streaming
  /\ disp[d].pc \notin {"idle", "done"}
  /\ ~resp[d].clientGone
  /\ resp' = [resp EXCEPT ![d].clientGone = TRUE]
  /\ UNCHANGED <<agentTable, executions, nextId, now, env, disp, hist>>

DeleteAgent(a) ==
  /\ agentTable[a] # Absent
  /\ agentTable' = [agentTable EXCEPT ![a] = Absent]
  /\ executions' = {r \in executions : r.agentId # a}
  /\ UNCHANGED <<nextId, now, env, disp, resp, hist>>

Tick ==
  /\ now < MaxClock
  /\ now' = now + 1
  /\ UNCHANGED <<agentTable, executions, nextId, env, disp, resp, hist>>

Next ==
  \/ \E d \in Dispatches, a \in AgentIds, i \in Inputs, k \in ApiKeys, b \in BaseURLs,
        s \in BOOLEAN : Post(d, a, i, k, b, s) /\ UNCHANGED <<toolVars, agentVars, libVars>>
  \/ \E d \in Dispatches : CreateExecutionRecord(d) /\ UNCHANGED <<toolVars, agentVars, libVars>>
  \/ \E d \in Dispatches : FindAgent(d) /\ UNCHANGED <<toolVars, agentVars, libVars>>
  \/ \E d \in Dispatches : CreateJAFAgentFromDB(d) /\ UNCHANGED <<toolVars, agentVars, libVars>>
  \/ \E d \in Dispatches, t \in Results : ExecuteOk(d, t) /\ UNCHANGED <<toolVars, agentVars, libVars>>
  \/ \E d \in Dispatches, b \in VendorBodies :
        ExecuteError(d, b) /\ UNCHANGED <<toolVars, agentVars, libVars>>
  \/ \E d \in Dispatches : StreamYield(d) /\ UNCHANGED <<toolVars, agentVars, libVars>>
  \/ \E d \in Dispatches : PersistCompleted(d) /\ UNCHANGED <<toolVars, agentVars, libVars>>
  \/ \E d \in Dispatches : SendDone(d) /\ UNCHANGED <<toolVars, agentVars, libVars>>
  \/ \E d \in Dispatches : PersistFailed(d) /\ UNCHANGED <<toolVars, agentVars, libVars>>
  \/ \E d \in Dispatches : ClientCancel(d) /\ UNCHANGED <<toolVars, agentVars, libVars>>
  \/ \E a \in AgentIds : DeleteAgent(a) /\ UNCHANGED <<toolVars, agentVars, libVars>>
  \/ Tick /\ UNCHANGED <<toolVars, agentVars, libVars>>

Spec == Init /\ [][Next]_vars


(***************************************************************************)
(* Properties of the dispatcher                                            *)
(***************************************************************************)
Done(d) == disp[d].pc = "done"

\* C1: every finished dispatch has written exactly one terminal update to the
\* record it created, and that record is not left in status 'running'.
C1_ExactlyOneTerminalUpdate ==
  \A d \in Dispatches :
    Done(d) /\ RowExists(disp[d].execId) =>
      /\ hist[d].terminalWrites = 1
      /\ RowOf(disp[d].execId).status \in {"completed", "failed"}

\* C2: a dispatch that ran to a successful end, streaming or not, has written
\* exactly one terminal update, with status 'completed', with the text the run
\* returned as output and with a duration that is not negative.
C2_CompletedRecordHoldsRunText ==
  \A d \in Dispatches :
    disp[d].outcome \in {"returned", "finished"} =>
      /\ hist[d].terminalWrites = 1
      /\ Get(hist[d].lastWrite).status = "completed"
      /\ Get(hist[d].lastWrite).output = hist[d].runResult
      /\ Get(hist[d].lastWrite).durationMs >= 0

\* C3: a dispatch in which assembly or the provider call threw has written exactly
\* one terminal update, with status 'failed' and the thrown message as error, and
\* its caller observes that same error.
C3_FailureRecordedAndRethrown ==
  \A d \in Dispatches :
    Done(d) /\ IsSome(hist[d].firstError) =>
      /\ hist[d].terminalWrites = 1
      /\ Get(hist[d].lastWrite).status = "failed"
      /\ Get(hist[d].lastWrite).error = hist[d].firstError
      /\ disp[d].thrown = hist[d].firstError

\* C4: whenever a dispatch has looked up or assembled its agent or has called the
\* provider, its record had been written before, with status 'running' and the
\* input of the request.
C4_RunningRecordBeforeProvider ==
  \A d \in Dispatches :
    \/ disp[d].pc \in {"assemble", "callProvider", "yield", "persistCompleted", "persistFailed"}
    \/ hist[d].assembled
    \/ hist[d].providerCalls > 0
    => /\ IsSome(hist[d].created)
       /\ Get(hist[d].created).status = "running"
       /\ Get(hist[d].created).input = disp[d].input

C4_Witness ==
  \E d \in Dispatches : hist[d].providerCalls > 0 /\ hist[d].assembled /\ IsSome(hist[d].created)

\* C5: an execute request with input for an agent id without a row is answered
\* with status 404 and writes no execution record.
C5_UnknownAgentIs404 ==
  \A d \in Dispatches :
    Done(d) /\ Truthy(disp[d].input) /\ ~hist[d].agentExisted =>
      /\ resp[d].status = 404
      /\ hist[d].created = None

\* C9: no stored execution record holds the API key of the request.
C9_ApiKeyNotStored ==
  \A r \in executions : r.metadata.apiKey = "undefined"

C11_VendorErrorIs500 ==
  \A d \in Dispatches :
    Done(d) /\ ~disp[d].streaming /\ hist[d].providerCalls > 0 /\ IsSome(hist[d].firstError)
      /\ RowExists(disp[d].execId) =>
        /\ resp[d].status = 500
        /\ resp[d].error = hist[d].firstError
        /\ RowOf(disp[d].execId).status = "failed"
        /\ RowOf(disp[d].execId).error = hist[d].firstError

\* C12: in a streaming response a terminal frame (done or error) is the last
\* frame and the stream is closed after it; when the dispatch has ended and the
\* client is still connected, the response is content frames followed by exactly
\* one terminal frame: done if the dispatch succeeded, error with the message if
\* it failed.
IsTerminalFrame(f) == f.type \in {"done", "error"}

C12_StreamEndsWithOneTerminalFrame ==
  \A d \in Dispatches :
    disp[d].streaming /\ resp[d].status = 200 =>
      LET fs == resp[d].frames
      IN  /\ \A i \in 1..Len(fs) : IsTerminalFrame(fs[i]) => i = Len(fs) /\ resp[d].closed
          /\ Done(d) /\ ~resp[d].clientGone =>
                /\ resp[d].closed
                /\ Len(fs) > 0
                /\ IF disp[d].outcome = "finished"
                   THEN fs[Len(fs)].type = "done"
                   ELSE fs[Len(fs)] = [type |-> "error", text |-> Get(disp[d].thrown)]

C12_Witness ==
  \E d \in Dispatches :
    /\ Done(d) /\ disp[d].streaming /\ ~resp[d].clientGone
    /\ Len(resp[d].frames) >= 2
    /\ resp[d].frames[1].type = "content"
    /\ resp[d].frames[Len(resp[d].frames)].type = "error"

\* C15: when the provider is litellm and the gateway has been contacted, it was
\* contacted with the base URL and key of the run if given, else with those of
\* the environment, else with http://localhost:4000 and 'anything'.
C15_GatewayUsesConfiguredUrlAndKey ==
  \A d \in Dispatches :
    hist[d].providerCalls > 0 /\ disp[d].provider = "litellm" =>
      /\ IsSome(disp[d].gateway)
      /\ Get(disp[d].gateway).baseURL =
           OrElse(disp[d].baseURL,
             OrElse(env.LITELLM_URL, OrElse(env.NEXT_PUBLIC_LITELLM_URL, "http://localhost:4000")))
      /\ Get(disp[d].gateway).apiKey =
           OrElse(Get(hist[d].created).metadata.apiKey,
             OrElse(env.LITELLM_API_KEY, "anything"))

ConcInputs == {"hi", "yo"}

InitConc ==
  /\ agentTable = [a \in AgentIds |->
                     IF a = "a1" THEN [model |-> ModelGpt4, modelConfig |-> "null"] ELSE Absent]
  /\ executions = {}
  /\ nextId = 1
  /\ now = 0
  /\ env = EnvNone
  /\ disp = [d \in Dispatches |-> IdleDisp]
  /\ resp = [d \in Dispatches |-> IdleResp]
  /\ hist = [d \in Dispatches |-> IdleHist]
  /\ InitOther

NextConc ==
  \/ \E d \in Dispatches, i \in ConcInputs, s \in BOOLEAN :
        Post(d, "a1", i, "sk-1", "undefined", s) /\ UNCHANGED <<toolVars, agentVars, libVars>>
  \/ \E d \in Dispatches : CreateExecutionRecord(d) /\ UNCHANGED <<toolVars, agentVars, libVars>>
  \/ \E d \in Dispatches : FindAgent(d) /\ UNCHANGED <<toolVars, agentVars, libVars>>
  \/ \E d \in Dispatches : CreateJAFAgentFromDB(d) /\ UNCHANGED <<toolVars, agentVars, libVars>>
  \/ \E d \in Dispatches, t \in Results :
        ExecuteOk(d, t) /\ UNCHANGED <<toolVars, agentVars, libVars>>
  \/ \E d \in Dispatches, b \in VendorBodies :
        ExecuteError(d, b) /\ UNCHANGED <<toolVars, agentVars, libVars>>
  \/ \E d \in Dispatches : StreamYield(d) /\ UNCHANGED <<toolVars, agentVars, libVars>>
  \/ \E d \in Dispatches : PersistCompleted(d) /\ UNCHANGED <<toolVars, agentVars, libVars>>
  \/ \E d \in Dispatches : SendDone(d) /\ UNCHANGED <<toolVars, agentVars, libVars>>
  \/ \E d \in Dispatches : PersistFailed(d) /\ UNCHANGED <<toolVars, agentVars, libVars>>
  \/ \E d \in Dispatches : ClientCancel(d) /\ UNCHANGED <<toolVars, agentVars, libVars>>
  \/ DeleteAgent("a1") /\ UNCHANGED <<toolVars, agentVars, libVars>>

SpecConc == InitConc /\ [][NextConc]_vars

\* C13: concurrent dispatches each have a record of their own, and the record of
\* a dispatch is 'running' with no output and no error until that dispatch writes
\* its terminal update, and afterwards holds exactly what that dispatch wrote:
\* its own output or its own error.
C13_DispatchesIndependent ==
  /\ \A d1, d2 \in Dispatches :
        d1 # d2 /\ IsSome(disp[d1].execId) /\ IsSome(disp[d2].execId)
          => disp[d1].execId # disp[d2].execId
  /\ \A d \in Dispatches :
        RowExists(disp[d].execId) =>
          LET r == RowOf(disp[d].execId)
          IN  /\ r.input = disp[d].input
              /\ r.agentId = disp[d].agentId
              /\ hist[d].terminalWrites <= 1
              /\ hist[d].terminalWrites = 0 =>
                    r.status = "running" /\ r.output = None /\ r.error = None
              /\ hist[d].terminalWrites = 1 =>
                    LET w == Get(hist[d].lastWrite)
                    IN  /\ r.status = w.status /\ r.output = w.output /\ r.error = w.error
                        /\ w.status = "completed" => w.output = Some(disp[d].fullOutput)
                        /\ w.status = "failed" => w.error = disp[d].caught

C13_Witness ==
  \E d1, d2 \in Dispatches :
    /\ d1 # d2
    /\ RowExists(disp[d1].execId) /\ RowExists(disp[d2].execId)
    /\ RowOf(disp[d1].execId).status = "completed"
    /\ RowOf(disp[d2].execId).status = "failed"
    /\ disp[d1].agentId = disp[d2].agentId


(***************************************************************************)
(* getProviderFromModel on its own: the model names and environments it is *)
(* called with. A variable of the environment is absent ("undefined"),     *)
(* empty, or has a value.                                                  *)
(***************************************************************************)
ModelClaude3Opus == <<"c","l","a","u","d","e","-","3","-","o","p","u","s">>
ModelGeminiSlashPro == <<"g","e","m","i","n","i","/","g","e","m","i","n","i","-","p","r","o">>
ModelGeminiPro == <<"g","e","m","i","n","i","-","p","r","o">>
ModelMixtral == <<"m","i","x","t","r","a","l","-","8","x","7","b">>
ModelCommandR == <<"c","o","m","m","a","n","d","-","r">>
ModelAzureX == <<"a","z","u","r","e","/","x">>
ModelVertexGemini == <<"v","e","r","t","e","x","/","g","e","m","i","n","i","-","p","r","o">>
ModelGptClaude == <<"m","y","-","g","p","t","-","c","l","a","u","d","e">>
ModelMistralSlash == <<"x","/","m","i","s","t","r","a","l">>

ProviderModels ==
  {ModelGpt4, ModelLlama3, ModelClaude3Opus, ModelGeminiSlashPro, ModelGeminiPro, ModelMixtral,
   ModelCommandR, ModelAzureX, ModelVertexGemini, ModelGptClaude, ModelMistralSlash}

ProviderEnvs ==
  { [EnvNone EXCEPT !.USE_LITELLM = u, !.NEXT_PUBLIC_USE_LITELLM = n,
                    !.LITELLM_URL = l, !.NEXT_PUBLIC_LITELLM_URL = m] :
      u \in {"undefined", "true", "false"}, n \in {"undefined", "true"},
      l \in {"undefined", "", "http://gateway"}, m \in {"undefined", "http://gateway"} }

GetProvider(model) ==
  /\ sel.pc \in {"idle", "done"}
  /\ sel' = [pc |-> "done", model |-> model, provider |-> getProviderFromModel(model, env)]
  /\ UNCHANGED <<execVars, toolVars, agentVars, load, call>>

InitProvider ==
  /\ env \in ProviderEnvs
  /\ sel = IdleSel
  /\ load = IdleLoad
  /\ call = IdleCall
  /\ agentTable = [a \in AgentIds |-> Absent]
  /\ executions = {}
  /\ nextId = 1
  /\ now = 0
  /\ disp = [d \in Dispatches |-> OffDisp]
  /\ resp = [d \in Dispatches |-> IdleResp]
  /\ hist = [d \in Dispatches |-> IdleHist]
  /\ toolTable = [t \in {} |-> Absent]
  /\ toolReq = [q \in {} |-> Absent]
  /\ knowledgeTable = [a \in AgentIds |-> <<>>]
  /\ agentReq = [q \in {} |-> Absent]

NextProvider == \E m \in ProviderModels : GetProvider(m)

SpecProvider == InitProvider /\ [][NextProvider]_vars

\* C14: the provider is chosen by first match: litellm when a gateway flag is
\* 'true' or a gateway URL is set (non-empty); else litellm when the name starts
\* with a listed vendor prefix and a slash; else openai for 'gpt', anthropic for
\* 'claude', google for 'gemini', litellm for 'llama', 'mixtral' or 'mistral';
\* else openai. The three examples of the claim follow.
C14_ProviderByFirstMatch ==
  sel.pc = "done" =>
    LET m == sel.model
        gateway == \/ env.USE_LITELLM = "true" \/ env.NEXT_PUBLIC_USE_LITELLM = "true"
                   \/ env.LITELLM_URL \notin {"undefined", ""}
                   \/ env.NEXT_PUBLIC_LITELLM_URL \notin {"undefined", ""}
        prefixed == \E p \in LiteLLMPrefixes :
                      Len(m) > Len(p) /\ SubSeq(m, 1, Len(p) + 1) = p \o <<"/">>
        gpt == Includes(m, <<"g","p","t">>)
        claude == Includes(m, <<"c","l","a","u","d","e">>)
        gemini == Includes(m, <<"g","e","m","i","n","i">>)
        open == \/ Includes(m, <<"l","l","a","m","a">>)
                \/ Includes(m, <<"m","i","x","t","r","a","l">>)
                \/ Includes(m, <<"m","i","s","t","r","a","l">>)
    IN  /\ gateway => sel.provider = "litellm"
        /\ ~gateway /\ prefixed => sel.provider = "litellm"
        /\ ~gateway /\ ~prefixed /\ gpt => sel.provider = "openai"
        /\ ~gateway /\ ~prefixed /\ ~gpt /\ claude => sel.provider = "anthropic"
        /\ ~gateway /\ ~prefixed /\ ~gpt /\ ~claude /\ gemini => sel.provider = "google"
        /\ ~gateway /\ ~prefixed /\ ~gpt /\ ~claude /\ ~gemini /\ open
             => sel.provider = "litellm"
        /\ ~gateway /\ ~prefixed /\ ~gpt /\ ~claude /\ ~gemini /\ ~open
             => sel.provider = "openai"
        /\ m = ModelClaude3Opus /\ ~gateway => sel.provider = "anthropic"
        /\ m = ModelGeminiSlashPro => sel.provider = "litellm"
        /\ m = ModelGpt4 /\ env.USE_LITELLM = "true" => sel.provider = "litellm"

C14_Witness ==
  /\ sel.pc = "done" /\ sel.model = ModelGeminiSlashPro /\ sel.provider = "litellm"
  /\ env.USE_LITELLM = "false" /\ env.NEXT_PUBLIC_USE_LITELLM = "undefined"
  /\ env.LITELLM_URL = "" /\ env.NEXT_PUBLIC_LITELLM_URL = "undefined"


(***************************************************************************)
(* The tool mutation routes: POST /tools, PUT /tools/{id},                 *)
(* DELETE /tools/{id}. PUT and DELETE read the row, decide, and write in a *)
(* second database call; other requests run between the two.               *)
(***************************************************************************)
ToolIds == {"t1", "t2", "t3"}
ToolNames == {"calculator", "custom", "other"}
ToolReqs == {"q1", "q2"}

\* Request bodies: a field the body does not carry is "undefined".
ToolBodies ==
  [name : ToolNames \cup {"undefined"}, isBuiltin : {"undefined", "true", "false"}]

\* The seeded table: one built-in tool and one custom tool.
SeedToolTable ==
  [t \in ToolIds |->
     IF t = "t1" THEN [name |-> "calculator", isBuiltin |-> TRUE]
     ELSE IF t = "t2" THEN [name |-> "custom", isBuiltin |-> FALSE]
     ELSE Absent]

NoBody == [name |-> "undefined", isBuiltin |-> "undefined"]

\* A request keeps its body only while its write is pending.
IdleToolReq == [pc |-> "idle", kind |-> "none", id |-> "t1", body |-> NoBody, status |-> 0]

NameTaken(name, except) ==
  \E t \in ToolIds \ except : toolTable[t] # Absent /\ toolTable[t].name = name

\* The guard of PUT and DELETE: `if (existingTool.isBuiltin)`
isBuiltinTool_Ignored(row) == FALSE
isBuiltinTool(row) == row.isBuiltin

\* prisma.tool.create({ data: body }): isBuiltin defaults to false, name is required
\* and unique; a violated constraint throws and the route answers 500.
ToolPost(q, body) ==
  /\ toolReq[q].pc \in {"idle", "done"}
  /\ \E t \in ToolIds : toolTable[t] = Absent
  /\ IF body.name = "undefined" \/ NameTaken(body.name, {})
     THEN /\ toolReq' = [toolReq EXCEPT ![q] = [pc |-> "done", kind |-> "POST", id |-> "t1",
                                                 body |-> NoBody, status |-> 500]]
          /\ UNCHANGED toolTable
     ELSE LET t == CHOOSE t \in ToolIds : toolTable[t] = Absent
          IN  /\ toolTable' = [toolTable EXCEPT ![t] =
                                 [name |-> body.name, isBuiltin |-> (body.isBuiltin = "true")]]
              /\ toolReq' = [toolReq EXCEPT ![q] = [pc |-> "done", kind |-> "POST", id |-> t,
                                                     body |-> NoBody, status |-> 201]]

\* PUT and DELETE, first call: findUnique, 404 without a row, 403 for a built-in row.
ToolLookup(q, kind, id, body) ==
  /\ toolReq[q].pc \in {"idle", "done"}
  /\ toolReq' = [toolReq EXCEPT ![q] =
       [pc |-> IF toolTable[id] # Absent /\ ~isBuiltinTool(toolTable[id]) THEN "write" ELSE "done",
        kind |-> kind, id |-> id,
        body |-> IF toolTable[id] # Absent /\ ~isBuiltinTool(toolTable[id]) THEN body ELSE NoBody,
        status |-> IF toolTable[id] = Absent THEN 404
                   ELSE IF isBuiltinTool(toolTable[id]) THEN 403 ELSE 0]]
  /\ UNCHANGED toolTable

ToolPutLookup(q, id, body) == ToolLookup(q, "PUT", id, body)

ToolDeleteLookup(q, id) == ToolLookup(q, "DELETE", id, NoBody)

\* PUT, second call: prisma.tool.update({ where: { id }, data: body })
ToolPutWrite(q) ==
  /\ toolReq[q].pc = "write" /\ toolReq[q].kind = "PUT"
  /\ LET id == toolReq[q].id
         body == toolReq[q].body
     IN  IF toolTable[id] = Absent \/ (body.name # "undefined" /\ NameTaken(body.name, {id}))
         THEN /\ toolReq' = [toolReq EXCEPT ![q].pc = "done", ![q].body = NoBody, ![q].status = 500]
              /\ UNCHANGED toolTable
         ELSE /\ toolTable' = [toolTable EXCEPT ![id] =
                   [name |-> IF body.name = "undefined" THEN @.name ELSE body.name,
                    isBuiltin |-> IF body.isBuiltin = "undefined" THEN @.isBuiltin
                                  ELSE body.isBuiltin = "true"]]
              /\ toolReq' = [toolReq EXCEPT ![q].pc = "done", ![q].body = NoBody, ![q].status = 200]

\* DELETE, second call: prisma.tool.delete({ where: { id } })
ToolDeleteWrite(q) ==
  /\ toolReq[q].pc = "write" /\ toolReq[q].kind = "DELETE"
  /\ LET id == toolReq[q].id
     IN  IF toolTable[id] = Absent
         THEN /\ toolReq' = [toolReq EXCEPT ![q].pc = "done", ![q].body = NoBody, ![q].status = 500]
              /\ UNCHANGED toolTable
         ELSE /\ toolTable' = [toolTable EXCEPT ![id] = Absent]
              /\ toolReq' = [toolReq EXCEPT ![q].pc = "done", ![q].body = NoBody, ![q].status = 200]

InitTools ==
  /\ toolTable = SeedToolTable
  /\ toolReq = [q \in ToolReqs |-> IdleToolReq]
  /\ agentTable = [a \in AgentIds |-> Absent]
  /\ executions = {}
  /\ nextId = 1
  /\ now = 0
  /\ env = EnvNone
  /\ disp = [d \in Dispatches |-> OffDisp]
  /\ resp = [d \in Dispatches |-> IdleResp]
  /\ hist = [d \in Dispatches |-> IdleHist]
  /\ knowledgeTable = [a \in AgentIds |-> <<>>]
  /\ agentReq = [q \in {} |-> Absent]
  /\ InitLib

NextTools ==
  \/ \E q \in ToolReqs, b \in ToolBodies : ToolPost(q, b) /\ UNCHANGED <<execVars, agentVars, libVars>>
  \/ \E q \in ToolReqs, t \in ToolIds, b \in ToolBodies :
        ToolPutLookup(q, t, b) /\ UNCHANGED <<execVars, agentVars, libVars>>
  \/ \E q \in ToolReqs, t \in ToolIds : ToolDeleteLookup(q, t) /\ UNCHANGED <<execVars, agentVars, libVars>>
  \/ \E q \in ToolReqs : ToolPutWrite(q) /\ UNCHANGED <<execVars, agentVars, libVars>>
  \/ \E q \in ToolReqs : ToolDeleteWrite(q) /\ UNCHANGED <<execVars, agentVars, libVars>>

SpecTools == InitTools /\ [][NextTools]_vars

\* C6: no step of the tool mutation routes creates a built-in row, changes a
\* built-in row or removes one.
C6_BuiltinsUntouched ==
  [][\A t \in ToolIds :
       /\ toolTable[t] # Absent /\ toolTable[t].isBuiltin => toolTable'[t] = toolTable[t]
       /\ toolTable'[t] # Absent /\ toolTable'[t].isBuiltin => toolTable[t] = toolTable'[t]
    ]_vars

AgentWriters == {"r1"}
AgentReaders == {"g1"}
AgentReqs == AgentWriters \cup AgentReaders

KnowledgeLists == { <<>>, <<"doc">>, <<"doc", "url">>, <<"doc", "undefined">> }

\* Request bodies: valid is whether agentSchema.parse accepts the body; hasKs is
\* Array.isArray(body.knowledgeSources).
NoAgentBody ==
  [valid |-> FALSE, row |-> [model |-> ModelGpt4, modelConfig |-> "null"],
   hasKs |-> FALSE, ks |-> <<>>]

AgentBodies ==
  {NoAgentBody} \cup
  { b \in [valid : {TRUE}, row : {[model |-> ModelGpt4, modelConfig |-> "null"],
                                  [model |-> ModelLlama3, modelConfig |-> "{}"]},
            hasKs : BOOLEAN, ks : KnowledgeLists] : ~b.hasKs => b.ks = <<>> }

IdleAgentReq ==
  [pc |-> "idle", kind |-> "none", id |-> "a1", created |-> None, body |-> NoAgentBody,
   status |-> 0, seen |-> None, sent |-> None]

\* const knowledgeSources = Array.isArray(body.knowledgeSources) ? ... : []
KnowledgeSourcesOf(body) == IF body.hasKs THEN body.ks ELSE <<>>

createManyThrows(ks) == \E i \in 1..Len(ks) : ks[i] = "undefined"

\* POST /agents up to prisma.agent.create; without knowledge sources the request
\* ends here with 201.
AgentPost(r, body) ==
  /\ agentReq[r].pc \in {"idle", "done"}
  /\ \E a \in AgentIds : agentTable[a] = Absent
  /\ IF ~body.valid
     THEN /\ agentReq' = [agentReq EXCEPT ![r] =
                [IdleAgentReq EXCEPT !.pc = "done", !.kind = "POST", !.status = 500]]
          /\ UNCHANGED <<agentTable, knowledgeTable>>
     ELSE LET a == CHOOSE a \in AgentIds : agentTable[a] = Absent
          IN  /\ agentTable' = [agentTable EXCEPT ![a] = body.row]
              /\ knowledgeTable' = [knowledgeTable EXCEPT ![a] = <<>>]
              /\ agentReq' = [agentReq EXCEPT ![r] =
                    IF Len(KnowledgeSourcesOf(body)) > 0
                    THEN [IdleAgentReq EXCEPT !.pc = "attach", !.kind = "POST", !.id = a,
                                              !.created = Some(a), !.body = body]
                    ELSE [IdleAgentReq EXCEPT !.pc = "done", !.kind = "POST", !.id = a,
                                              !.created = Some(a), !.status = 201]]

\* POST /agents, prisma.knowledgeSource.createMany and the answer
AgentPostAttach(r) ==
  /\ agentReq[r].pc = "attach"
  /\ LET a == agentReq[r].id
         ks == KnowledgeSourcesOf(agentReq[r].body)
     IN  IF createManyThrows(ks) \/ agentTable[a] = Absent
         THEN /\ agentReq' = [agentReq EXCEPT ![r].pc = "done", ![r].body = NoAgentBody,
                                              ![r].status = 500]
              /\ UNCHANGED <<agentTable, knowledgeTable>>
         ELSE /\ knowledgeTable' = [knowledgeTable EXCEPT ![a] = @ \o ks]
              /\ agentReq' = [agentReq EXCEPT ![r].pc = "done", ![r].body = NoAgentBody,
                                              ![r].status = 201]
              /\ UNCHANGED agentTable

\* The knowledge sources of the agent after the transaction of PUT: deleteMany
\* and createMany when the body carries an array, nothing otherwise
replaceKnowledgeSources_NoDelete(old, body) == old \o KnowledgeSourcesOf(body)

replaceKnowledgeSources(old, body) ==
  IF body.hasKs THEN KnowledgeSourcesOf(body) ELSE old

\* PUT /agents/{id}: the transaction commits as a whole or not at all. sent
\* remembers the knowledgeSources array of the body of an update that succeeded.
AgentPut(r, id, body) ==
  /\ agentReq[r].pc \in {"idle", "done"}
  /\ IF \/ ~body.valid
        \/ agentTable[id] = Absent
        \/ body.hasKs /\ createManyThrows(KnowledgeSourcesOf(body))
     THEN /\ agentReq' = [agentReq EXCEPT ![r] =
                [IdleAgentReq EXCEPT !.pc = "done", !.kind = "PUT", !.id = id, !.status = 500]]
          /\ UNCHANGED <<agentTable, knowledgeTable>>
     ELSE /\ agentTable' = [agentTable EXCEPT ![id] = body.row]
          /\ knowledgeTable' = [knowledgeTable EXCEPT ![id] =
                                  replaceKnowledgeSources(@, body)]
          /\ agentReq' = [agentReq EXCEPT ![r] =
                [IdleAgentReq EXCEPT !.pc = "done", !.kind = "PUT", !.id = id, !.status = 200,
                                     !.sent = IF body.hasKs THEN Some(body.ks) ELSE None]]

\* GET /agents/{id}: findUnique with include: { knowledgeSources: true }
AgentGet(r, id) ==
  /\ agentReq[r].pc \in {"idle", "done"}
  /\ agentReq' = [agentReq EXCEPT ![r] =
        IF agentTable[id] = Absent
        THEN [IdleAgentReq EXCEPT !.pc = "done", !.kind = "GET", !.id = id, !.status = 404]
        ELSE [IdleAgentReq EXCEPT !.pc = "done", !.kind = "GET", !.id = id, !.status = 200,
                !.seen = Some([row |-> agentTable[id], ks |-> knowledgeTable[id]])]]
  /\ UNCHANGED <<agentTable, knowledgeTable>>

InitAgents ==
  /\ agentTable = [a \in AgentIds |->
                     IF a = "a1" THEN [model |-> ModelGpt4, modelConfig |-> "null"] ELSE Absent]
  /\ knowledgeTable = [a \in AgentIds |-> IF a = "a1" THEN <<"doc">> ELSE <<>>]
  /\ agentReq = [r \in AgentReqs |-> IdleAgentReq]
  /\ executions = {}
  /\ nextId = 1
  /\ now = 0
  /\ env = EnvNone
  /\ disp = [d \in Dispatches |-> OffDisp]
  /\ resp = [d \in Dispatches |-> IdleResp]
  /\ hist = [d \in Dispatches |-> IdleHist]
  /\ toolTable = [t \in {} |-> Absent]
  /\ toolReq = [q \in {} |-> Absent]
  /\ InitLib

AgentFrame == UNCHANGED <<executions, nextId, now, env, disp, resp, hist, toolVars, libVars>>

NextAgents ==
  \/ \E r \in AgentWriters, b \in AgentBodies : AgentPost(r, b) /\ AgentFrame
  \/ \E r \in AgentWriters : AgentPostAttach(r) /\ AgentFrame
  \/ \E r \in AgentWriters, a \in AgentIds, b \in AgentBodies : AgentPut(r, a, b) /\ AgentFrame
  \/ \E r \in AgentReaders, a \in AgentIds : AgentGet(r, a) /\ AgentFrame

SpecAgents == InitAgents /\ [][NextAgents]_vars

\* C8: agent creation and agent update are all-or-nothing and isolated: a create
\* request that failed has left no agent row behind, and in no state is the agent
\* row of a request readable while its knowledge sources are still to be written.
C8_AgentWritesAtomic ==
  \A r \in AgentReqs :
    /\ agentReq[r].pc = "done" /\ agentReq[r].status = 500 /\ IsSome(agentReq[r].created)
         => agentTable[Get(agentReq[r].created)] = Absent
    /\ agentReq[r].pc = "attach" => agentTable[agentReq[r].id] = Absent


(***************************************************************************)
(* The tool resolver, loadToolsForAgent. The registry of built-in tools is *)
(* a plain object: indexing it with a key it does not own falls through to *)
(* Object.prototype, so an identifier such as "constructor" yields a value *)
(* that is not undefined and has no schema. A row of the tool table here   *)
(* carries the fields createToolFromDB reads: schema, parameters and       *)
(* implementation hold "undefined" (null), a value, or a string that is no *)
(* JSON ("{bad") or no JavaScript ("bad code").                            *)
(***************************************************************************)
MaxIds == 3

BuiltinNames == {"calculator", "webSearch"}
ObjectPrototypeKeys == {"constructor"}
LoadIdentifiers == {"calculator", "webSearch", "t1", "other", "constructor", ""}

ToolIdLists == UNION { [1..n -> LoadIdentifiers] : n \in 0..MaxIds }

MsgTypeError == <<"Cannot", "read", "properties", "of", "undefined">>

\* toolRegistry[id]
toolRegistry(id) ==
  IF id \in BuiltinNames THEN Some([kind |-> "tool", name |-> id])
  ELSE IF id \in ObjectPrototypeKeys THEN Some([kind |-> "inherited", name |-> id])
  ELSE None

\* toolIds.map(id => toolRegistry[id]).filter(tool => tool !== undefined)
getToolsByIds(ids) ==
  LET found == SelectSeq(ids, LAMBDA id : IsSome(toolRegistry(id)))
  IN  [i \in 1..Len(found) |-> Get(toolRegistry(found[i]))]

\* Array.from(new Set(...)): first occurrences, in order
Unique_KeepAll(ids) == ids

RECURSIVE Unique(_)
Unique(ids) ==
  IF ids = <<>> THEN <<>>
  ELSE LET front == Unique(SubSeq(ids, 1, Len(ids) - 1))
           last == ids[Len(ids)]
       IN  IF \E i \in 1..Len(front) : front[i] = last THEN front ELSE Append(front, last)

\* toolIds.filter(Boolean)
FilterBoolean(ids) == SelectSeq(ids, LAMBDA id : id # "")

BuiltinDefinition(t) ==
  [name |-> t.name, execute |-> IF t.kind = "tool" THEN "builtin" ELSE "inherited",
   from |-> "registry"]

\* The name field of the stored schema of a row: a compiled tool is returned with
\* the stored schema as it is, so its name is the one written there, which need
\* not be the name of the row.
SchemaName(row) ==
  IF row.schema = "object named calculator" THEN "calculator" ELSE row.name

\* createToolFromDB: what it returns or throws, and whether it handed the stored
\* implementation to new Function
createToolFromDB_FlagIgnored(id, row, e) ==
  LET fallback ==
        IF row.parameters = "{bad"
        THEN [threw |-> Some(MsgSyntaxError), tool |-> None, compiled |-> FALSE]
        ELSE [threw |-> None,
              tool |-> Some([name |-> row.name, execute |-> "placeholder", from |-> id]),
              compiled |-> FALSE]
  IN  IF row.schema # "undefined"
      THEN IF row.schema = "{bad"
           THEN [threw |-> Some(MsgSyntaxError), tool |-> None, compiled |-> FALSE]
           ELSE IF row.implementation # "undefined"
           THEN IF row.implementation = "bad code"
                THEN [fallback EXCEPT !.compiled = TRUE]
                ELSE [threw |-> None,
                      tool |-> Some([name |-> SchemaName(row), execute |-> "compiled",
                                     from |-> id]),
                      compiled |-> TRUE]
           ELSE fallback
      ELSE fallback

createToolFromDB(id, row, e) ==
  LET fallback ==
        IF row.parameters = "{bad"
        THEN [threw |-> Some(MsgSyntaxError), tool |-> None, compiled |-> FALSE]
        ELSE [threw |-> None,
              tool |-> Some([name |-> row.name, execute |-> "placeholder", from |-> id]),
              compiled |-> FALSE]
  IN  IF row.schema # "undefined"
      THEN IF row.schema = "{bad"
           THEN [threw |-> Some(MsgSyntaxError), tool |-> None, compiled |-> FALSE]
           ELSE IF row.implementation # "undefined" /\ e.ENABLE_DB_TOOL_CODE = "true"
           THEN IF row.implementation = "bad code"
                THEN [fallback EXCEPT !.compiled = TRUE]
                ELSE [threw |-> None,
                      tool |-> Some([name |-> SchemaName(row), execute |-> "compiled",
                                     from |-> id]),
                      compiled |-> TRUE]
           ELSE fallback
      ELSE fallback

\* Step 3 of loadToolsForAgent: rows whose name is a registry key are replaced by
\* the registry entry, once per name
RECURSIVE PreferBuiltIn(_, _, _)
PreferBuiltIn(rows, selected, acc) ==
  IF rows = <<>> THEN [selected |-> selected, builtInFromDB |-> acc]
  ELSE LET name == toolTable[Head(rows)].name
           reg == getToolsByIds(<<name>>)
       IN  IF name \in selected THEN PreferBuiltIn(Tail(rows), selected, acc)
           ELSE IF Len(reg) > 0
           THEN PreferBuiltIn(Tail(rows), selected \cup {name},
                              Append(acc, BuiltinDefinition(reg[1])))
           ELSE PreferBuiltIn(Tail(rows), selected, acc)

\* The ids of the tool table in the order findMany returns their rows
ToolIdOrder == <<"t1", "t2", "t3">>

SeqToSet(q) == {q[i] : i \in 1..Len(q)}

\* loadToolsForAgent up to the query: the empty list returns at once; the
\* identifiers are filtered and deduplicated, looked up in the registry, and what
\* the registry did not select by name is left for the tool table.
loadToolsForAgent_start(ids) ==
  LET u == Unique(FilterBoolean(ids))
      b == getToolsByIds(u)
      selected == {b[i].name : i \in 1..Len(b)}
      unresolved == SelectSeq(u, LAMBDA id : id \notin selected)
  IN  IF Len(ids) = 0
      THEN [load EXCEPT !.pc = "done", !.toolIds = ids]
      ELSE IF \E i \in 1..Len(b) : b[i].kind # "tool"
      THEN [load EXCEPT !.pc = "done", !.toolIds = ids, !.uniqueIds = u,
                        !.threw = Some(MsgTypeError)]
      ELSE IF unresolved = <<>>
      THEN [load EXCEPT !.pc = "done", !.toolIds = ids, !.uniqueIds = u,
                        !.builtInByName = b,
                        !.result = [i \in 1..Len(b) |-> BuiltinDefinition(b[i])]]
      ELSE [load EXCEPT !.pc = "query", !.toolIds = ids, !.uniqueIds = u,
                        !.builtInByName = b, !.unresolved = unresolved]

LoadStart(ids) ==
  /\ load.pc = "idle"
  /\ load' = loadToolsForAgent_start(ids)
  /\ UNCHANGED <<execVars, toolVars, agentVars, sel, call>>

\* prisma.tool.findMany({ where: { OR: [{ id: { in } }, { name: { in } }] } })
LoadQuery ==
  /\ load.pc = "query"
  /\ LET wanted == SeqToSet(load.unresolved)
     IN  load' = [load EXCEPT !.pc = "build", !.queries = @ + 1,
                    !.dbTools = SelectSeq(ToolIdOrder, LAMBDA t :
                                  /\ toolTable[t] # Absent
                                  /\ (t \in wanted \/ toolTable[t].name \in wanted))]
  /\ UNCHANGED <<execVars, toolVars, agentVars, sel, call>>

\* Steps 3 to 5: built-ins are preferred for rows with a registry name, the other
\* rows are built by createToolFromDB under Promise.all, which rejects as soon as
\* one of them throws.
LoadBuild ==
  /\ load.pc = "build"
  /\ LET b == load.builtInByName
         pref == PreferBuiltIn(load.dbTools, {b[i].name : i \in 1..Len(b)}, <<>>)
         customDBTools == SelectSeq(load.dbTools,
                                    LAMBDA t : toolTable[t].name \notin pref.selected)
         built == [i \in 1..Len(customDBTools) |->
                     createToolFromDB(customDBTools[i], toolTable[customDBTools[i]], env)]
         compiled == {customDBTools[i] : i \in {j \in 1..Len(built) : built[j].compiled}}
     IN  IF \E i \in 1..Len(built) : IsSome(built[i].threw)
         THEN load' = [load EXCEPT !.pc = "done", !.compiled = compiled,
                         !.threw = built[CHOOSE i \in 1..Len(built) : IsSome(built[i].threw)].threw]
         ELSE load' = [load EXCEPT !.pc = "done", !.compiled = compiled,
                         !.result = [i \in 1..Len(b) |-> BuiltinDefinition(b[i])]
                                    \o pref.builtInFromDB
                                    \o [i \in 1..Len(built) |-> Get(built[i].tool)]]
  /\ UNCHANGED <<execVars, toolVars, agentVars, sel, call>>

\* Rows of the tool table as the resolver finds them
CalculatorRows ==
  [name : {"calculator"}, isBuiltin : {TRUE}, schema : {"undefined"},
   parameters : {"object"}, implementation : {"undefined", "code"}]

CustomRows ==
  { r \in [name : {"custom"}, isBuiltin : {FALSE},
           schema : {"undefined", "object", "object named calculator", "{bad"},
           parameters : {"object", "{bad"},
           implementation : {"undefined", "code", "bad code"}] :
      /\ r.schema = "undefined" => r.implementation # "bad code"
      /\ r.schema = "{bad" => r.parameters = "object" /\ r.implementation = "undefined"
      /\ r.schema = "object named calculator" =>
            r.parameters = "object" /\ r.implementation = "code" }

OtherRows ==
  [name : {"other"}, isBuiltin : {FALSE}, schema : {"undefined"},
   parameters : {"object"}, implementation : {"undefined"}]

InitResolver ==
  /\ \E r1 \in CalculatorRows \cup CustomRows \cup {Absent}, r2 \in OtherRows \cup {Absent} :
        toolTable = [t \in ToolIds |-> IF t = "t1" THEN r1 ELSE IF t = "t2" THEN r2 ELSE Absent]
  /\ env \in {EnvNone, [EnvNone EXCEPT !.ENABLE_DB_TOOL_CODE = "true"]}
  /\ load = [IdleLoad EXCEPT !.pc = "idle"]
  /\ sel = IdleSel
  /\ call = IdleCall
  /\ toolReq = [q \in {} |-> Absent]
  /\ agentTable = [a \in AgentIds |-> Absent]
  /\ executions = {}
  /\ nextId = 1
  /\ now = 0
  /\ disp = [d \in Dispatches |-> OffDisp]
  /\ resp = [d \in Dispatches |-> IdleResp]
  /\ hist = [d \in Dispatches |-> IdleHist]
  /\ knowledgeTable = [a \in AgentIds |-> <<>>]
  /\ agentReq = [q \in {} |-> Absent]

NextResolver ==
  \/ \E ids \in ToolIdLists : LoadStart(ids)
  \/ LoadQuery
  \/ LoadBuild

SpecResolver == InitResolver /\ [][NextResolver]_vars

(***************************************************************************)
(* Properties of the resolver                                              *)
(***************************************************************************)
Requested == SeqToSet(load.toolIds) \ {""}

RowMatches(t, id) == toolTable[t] # Absent /\ (t = id \/ toolTable[t].name = id)

Resolvable(id) == id \in BuiltinNames \/ \E t \in ToolIds : RowMatches(t, id)

ResolvedName(id) ==
  IF id \in BuiltinNames THEN id
  ELSE toolTable[CHOOSE t \in ToolIds : RowMatches(t, id)].name

\* A row whose stored schema, or whose parameters when there is no schema, is a
\* string that is no JSON
ParseFails(row) ==
  row.schema = "{bad" \/ (row.schema = "undefined" /\ row.parameters = "{bad")

ResultNames == {load.result[i].name : i \in 1..Len(load.result)}

\* C16: with a tool table whose rows all parse, the resolver returns normally for
\* every identifier list, and its result holds a definition for exactly the
\* identifiers that can be resolved.
C16_ResolverNeverThrows ==
  load.pc = "done" /\ (\A t \in ToolIds : toolTable[t] # Absent => ~ParseFails(toolTable[t])) =>
    /\ load.threw = None
    /\ ResultNames = {ResolvedName(id) : id \in {r \in Requested : Resolvable(r)}}

\* C17: when a requested custom row fails to parse, and every identifier of the
\* list is a tool name or a row identifier, the resolver still returns and its
\* result holds every other requested tool that can be resolved.
C17_ParseFailureIsPerTool ==
  /\ load.pc = "done"
  /\ Requested \cap ObjectPrototypeKeys = {}
  /\ \E t \in ToolIds, id \in Requested :
        RowMatches(t, id) /\ toolTable[t].name \notin BuiltinNames /\ ParseFails(toolTable[t])
  => /\ load.threw = None
     /\ \A id \in Requested :
          /\ Resolvable(id)
          /\ ~(\E t \in ToolIds : RowMatches(t, id) /\ toolTable[t].name \notin BuiltinNames
                                    /\ ParseFails(toolTable[t]))
          => ResolvedName(id) \in ResultNames

\* C18: a stored implementation is handed to the compiler only for a row that has
\* one and only while ENABLE_DB_TOOL_CODE is 'true'; every custom tool built in
\* another case has the placeholder as its execute operation.
C18_CodeCompiledOnlyWithFlag ==
  load.pc = "done" =>
    /\ \A t \in load.compiled :
         toolTable[t].implementation # "undefined" /\ env.ENABLE_DB_TOOL_CODE = "true"
    /\ env.ENABLE_DB_TOOL_CODE # "true" => load.compiled = {}
    /\ \A i \in 1..Len(load.result) :
         load.result[i].from \in ToolIds =>
           LET row == toolTable[load.result[i].from]
           IN  IF row.implementation # "undefined" /\ env.ENABLE_DB_TOOL_CODE = "true"
               THEN load.result[i].execute \in {"compiled", "placeholder"}
               ELSE load.result[i].execute = "placeholder"

C18_Witness ==
  /\ load.pc = "done"
  /\ env.ENABLE_DB_TOOL_CODE = "true"
  /\ \E i \in 1..Len(load.result) : load.result[i].execute = "compiled"
  /\ \E i \in 1..Len(load.result) : load.result[i].execute = "placeholder"

\* C19: for a list that holds a built-in name and the id of a row of that name,
\* the resolver returns exactly one definition of that name, the built-in one.
C19_BuiltInPreferredOverRow ==
  \A n \in BuiltinNames :
    /\ load.pc = "done"
    /\ n \in Requested
    /\ \E t \in ToolIds \cap Requested : toolTable[t] # Absent /\ toolTable[t].name = n
    => /\ load.threw = None
       /\ Cardinality({i \in 1..Len(load.result) : load.result[i].name = n}) = 1
       /\ \A i \in 1..Len(load.result) :
            load.result[i].name = n => load.result[i] = [name |-> n, execute |-> "builtin",
                                                         from |-> "registry"]

\* C20: for a list of built-in names only, repeated or not, the resolver returns
\* one definition per distinct name, each the built-in one, and does not query the
\* tool table.
C20_BuiltInsOnlyNoQuery ==
  load.pc = "done" /\ SeqToSet(load.toolIds) \subseteq BuiltinNames =>
    /\ load.threw = None
    /\ load.queries = 0
    /\ Len(load.result) = Cardinality(SeqToSet(load.toolIds))
    /\ ResultNames = SeqToSet(load.toolIds)
    /\ \A i \in 1..Len(load.result) : load.result[i].execute = "builtin"

C20_Witness ==
  /\ load.pc = "done"
  /\ load.toolIds = <<"calculator", "webSearch", "calculator">>
  /\ Len(load.result) = 2

\* C21: no two definitions of the list the resolver returns have the same
\* schema.name.
C21_ResultUniqueByName ==
  load.pc = "done" /\ load.threw = None =>
    \A i, j \in 1..Len(load.result) :
      load.result[i].name = load.result[j].name => i = j

(***************************************************************************)
(* validateAgentConfiguration (part_004 256-272).  The agent is given by   *)
(* whether it has a name and a model and by its tool list; its handoffs    *)
(* only produce a warning.  The function calls loadToolsForAgent, so the   *)
(* steps LoadQuery and LoadBuild run between its two steps.                *)
(***************************************************************************)
MsgNameRequired == "Agent name is required"
MsgModelRequired == "Agent model is required"
MsgSomeTools == "Some tools could not be loaded"

ValidateStart(hasName, hasModel, ids) ==
  /\ load.pc = "idle"
  /\ load' = IF ~hasName
             THEN [load EXCEPT !.pc = "validated", !.caller = "validate", !.toolIds = ids,
                               !.validation = MsgNameRequired]
             ELSE IF ~hasModel
             THEN [load EXCEPT !.pc = "validated", !.caller = "validate", !.toolIds = ids,
                               !.validation = MsgModelRequired]
             ELSE IF Len(ids) = 0
             THEN [load EXCEPT !.pc = "validated", !.caller = "validate", !.toolIds = ids,
                               !.validation = "true"]
             ELSE [loadToolsForAgent_start(ids) EXCEPT !.caller = "validate"]
  /\ UNCHANGED <<execVars, toolVars, agentVars, sel, call>>

\* if (tools.length !== agent.tools.length) throw ...; an error of the resolver
\* passes through
validateTools(result, ids) ==
  IF Len(result) # Len(ids) THEN MsgSomeTools ELSE "true"

ValidateFinish ==
  /\ load.pc = "done"
  /\ load.caller = "validate"
  /\ load' = [load EXCEPT !.pc = "validated",
                 !.validation = IF IsSome(load.threw) THEN "rethrown"
                                ELSE validateTools(load.result, load.toolIds)]
  /\ UNCHANGED <<execVars, toolVars, agentVars, sel, call>>

ValidateRows ==
  {Absent}
  \cup { r \in CalculatorRows : r.implementation = "undefined" }
  \cup { r \in CustomRows : r.schema = "undefined" /\ r.parameters = "object"
                             /\ r.implementation = "undefined" }

InitValidate ==
  /\ \E r1 \in ValidateRows, r2 \in OtherRows \cup {Absent} :
        toolTable = [t \in ToolIds |-> IF t = "t1" THEN r1 ELSE IF t = "t2" THEN r2 ELSE Absent]
  /\ env = EnvNone
  /\ load = [IdleLoad EXCEPT !.pc = "idle"]
  /\ sel = IdleSel
  /\ call = IdleCall
  /\ toolReq = [q \in {} |-> Absent]
  /\ agentTable = [a \in AgentIds |-> Absent]
  /\ executions = {}
  /\ nextId = 1
  /\ now = 0
  /\ disp = [d \in Dispatches |-> OffDisp]
  /\ resp = [d \in Dispatches |-> IdleResp]
  /\ hist = [d \in Dispatches |-> IdleHist]
  /\ knowledgeTable = [a \in AgentIds |-> <<>>]
  /\ agentReq = [q \in {} |-> Absent]

NextValidate ==
  \/ \E n \in BOOLEAN, m \in BOOLEAN, ids \in ToolIdLists : ValidateStart(n, m, ids)
  \/ LoadQuery
  \/ LoadBuild
  \/ ValidateFinish

SpecValidate == InitValidate /\ [][NextValidate]_vars

\* C27: for an agent with a name and a model, validateAgentConfiguration throws
\* 'Some tools could not be loaded' exactly when an identifier of agent.tools
\* resolves to no tool definition, and returns true when all of them resolve.
C27_ThrowsIffUnresolved ==
  load.pc = "validated" /\ load.validation \notin {MsgNameRequired, MsgModelRequired} =>
    LET ids == load.toolIds
        allResolve == \A i \in 1..Len(ids) : Resolvable(ids[i])
    IN  /\ load.validation = MsgSomeTools <=> ~allResolve
        /\ allResolve => load.validation = "true"

(***************************************************************************)
(* Schema conversion: parseZodSchema / parseZodType (part_004 189-251) and *)
(* schemaToOpenAIParams (provider.ts 242-290).                             *)
(*                                                                         *)
(* A JSON schema description is a record with a type field, an array       *)
(* description has items (an Option) and an object description has         *)
(* properties (an Option of a sequence of <<key, description>> pairs in    *)
(* the order of Object.entries).  A runtime (Zod) schema is a record with  *)
(* a typeName field, and a vendor document a record as the converter       *)
(* builds it.  JsNull and JsUndefined are the JavaScript values, NoDef is  *)
(* an object without _def, and Thrown stands for a call that threw.        *)
(***************************************************************************)
MaxDepth == 2

JsNull == [js |-> "null"]
JsUndefined == [js |-> "undefined"]
NoDef == [js |-> "object"]
Thrown == [thrown |-> TRUE]

Tagged(tag) == [type |-> tag]
Untagged == [type |-> "undefined"]
ArrayOf(items) == [type |-> "array", items |-> items]
ObjectOf(properties) == [type |-> "object", properties |-> properties]

DescLeaves ==
  {Tagged("string"), Tagged("number"), Tagged("boolean"), Tagged("integer"), Untagged,
   JsNull, ArrayOf(None), ObjectOf(None), ObjectOf(Some(<<>>))}

SecondProperty == {Tagged("string"), Tagged("number"), Untagged}

RECURSIVE Descs(_)
Descs(n) ==
  IF n = 0 THEN DescLeaves
  ELSE LET sub == Descs(n - 1)
       IN  DescLeaves
           \cup {ArrayOf(Some(d)) : d \in sub}
           \cup {ObjectOf(Some(<< <<"a", d>> >>)) : d \in sub}
           \cup {ObjectOf(Some(<< <<"a", d>>, <<"b", e>> >>)) : d \in sub, e \in SecondProperty}

Zod(typeName) == [typeName |-> typeName]
ZodArray(type) == [typeName |-> "ZodArray", type |-> type]
ZodObject(shape) == [typeName |-> "ZodObject", shape |-> shape]
ZodRecord(valueType) == [typeName |-> "ZodRecord", valueType |-> valueType]
ZodOptional(innerType) == [typeName |-> "ZodOptional", innerType |-> innerType]
ZodUnion(options) == [typeName |-> "ZodUnion", options |-> options]
ZodEnum(values) == [typeName |-> "ZodEnum", values |-> values]

IsZod(x) == "typeName" \in DOMAIN x

\* parseZodType: the runtime kind of one description
parseZodType_NumberAsString(type) ==
  IF type = JsNull \/ type.type = "undefined" THEN Zod("ZodUnknown")
  ELSE IF type.type \in {"string", "number"} THEN Zod("ZodString")
  ELSE IF type.type = "boolean" THEN Zod("ZodBoolean")
  ELSE Zod("ZodUnknown")

RECURSIVE parseZodType(_)
parseZodType(type) ==
  IF type = JsNull \/ type.type = "undefined" THEN Zod("ZodUnknown")
  ELSE IF type.type = "string" THEN Zod("ZodString")
  ELSE IF type.type = "number" THEN Zod("ZodNumber")
  ELSE IF type.type = "boolean" THEN Zod("ZodBoolean")
  ELSE IF type.type = "array"
  THEN ZodArray(parseZodType(IF IsSome(type.items) /\ Get(type.items) # JsNull
                             THEN Get(type.items) ELSE Untagged))
  ELSE IF type.type = "object"
  THEN IF IsSome(type.properties)
       THEN LET p == Get(type.properties)
            IN  ZodObject(Some([i \in 1..Len(p) |-> <<p[i][1], parseZodType(p[i][2])>>]))
       ELSE ZodRecord(Zod("ZodUnknown"))
  ELSE Zod("ZodUnknown")

\* A root argument of parseZodSchema is a description, a runtime schema, or a
\* string: the JSON text of a description or a text that is no JSON
JsonText(d) == [text |-> d]
BadJsonText == [badText |-> TRUE]

parseZodSchema(schemaJson) ==
  IF schemaJson = JsNull THEN Zod("ZodUnknown")
  ELSE IF IsZod(schemaJson) THEN schemaJson
  ELSE IF schemaJson = BadJsonText THEN Thrown
  ELSE LET schema == IF "text" \in DOMAIN schemaJson THEN schemaJson.text ELSE schemaJson
       IN  IF schema = JsNull THEN Thrown
           ELSE IF schema.type = "object" /\ IsSome(schema.properties)
           THEN LET p == Get(schema.properties)
                IN  ZodObject(Some([i \in 1..Len(p) |-> <<p[i][1], parseZodType(p[i][2])>>]))
           ELSE Zod("ZodUnknown")

\* field.isOptional?.() || field._def?.typeName === 'ZodOptional'; a Zod type is
\* optional when it accepts undefined.  Reading a property of null throws.
RECURSIVE isOptional(_)
isOptional(field) ==
  IF ~IsZod(field) THEN FALSE
  ELSE IF field.typeName \in {"ZodOptional", "ZodUnknown"} THEN TRUE
  ELSE IF field.typeName = "ZodUnion" /\ IsSome(field.options)
  THEN \E i \in 1..Len(Get(field.options)) : isOptional(Get(field.options)[i])
  ELSE FALSE

TypeOf(doc) == IF "type" \in DOMAIN doc THEN doc.type ELSE "undefined"

\* resolve, the inner function of schemaToOpenAIParams
RECURSIVE resolve(_)
resolve(s) ==
  IF s \in {JsNull, JsUndefined} THEN Thrown
  ELSE IF ~IsZod(s) THEN Tagged("string")
  ELSE IF s.typeName = "ZodString" THEN Tagged("string")
  ELSE IF s.typeName = "ZodNumber" THEN Tagged("number")
  ELSE IF s.typeName = "ZodBoolean" THEN Tagged("boolean")
  ELSE IF s.typeName = "ZodArray"
  THEN LET items == resolve(s.type)
       IN  IF items = Thrown THEN Thrown ELSE [type |-> "array", items |-> items]
  ELSE IF s.typeName = "ZodObject"
  THEN IF ~IsSome(s.shape) THEN Thrown
       ELSE LET shape == Get(s.shape)
                properties == [i \in 1..Len(shape) |-> <<shape[i][1], resolve(shape[i][2])>>]
                keys == [i \in 1..Len(shape) |-> shape[i][1]]
                optional == {shape[i][1] : i \in {j \in 1..Len(shape) : isOptional(shape[j][2])}}
            IN  IF \E i \in 1..Len(shape) :
                     shape[i][2] \in {JsNull, JsUndefined} \/ properties[i][2] = Thrown
                THEN Thrown
                ELSE [type |-> "object", properties |-> properties,
                      required |-> SelectSeq(keys, LAMBDA k : k \notin optional)]
  ELSE IF s.typeName = "ZodOptional" THEN resolve(s.innerType)
  ELSE IF s.typeName = "ZodUnion"
  THEN IF ~IsSome(s.options) THEN [anyOf |-> <<>>]
       ELSE LET o == Get(s.options)
                anyOf == [i \in 1..Len(o) |-> resolve(o[i])]
            IN  IF \E i \in 1..Len(o) : anyOf[i] = Thrown THEN Thrown ELSE [anyOf |-> anyOf]
  ELSE IF s.typeName = "ZodEnum" THEN [type |-> "string", enum |-> s.values]
  ELSE IF s.typeName = "ZodRecord" THEN [type |-> "object", additionalProperties |-> TRUE]
  ELSE Tagged("string")

EmptyParams == [type |-> "object", properties |-> <<>>, required |-> <<>>]

schemaToOpenAIParams_NoWrap(schema) ==
  LET json == resolve(schema)
  IN  IF json = Thrown THEN EmptyParams ELSE json

schemaToOpenAIParams(schema) ==
  LET json == resolve(schema)
  IN  IF json = Thrown THEN EmptyParams
      ELSE IF TypeOf(json) # "object"
      THEN [type |-> "object", properties |-> << <<"input", json>> >>, required |-> <<>>]
      ELSE json

\* Runtime schemas handed to the converter, well formed or not
ZodLeaves ==
  {Zod("ZodString"), Zod("ZodNumber"), Zod("ZodBoolean"), Zod("ZodUnknown"),
   ZodEnum(<<"x", "y">>), ZodRecord(Zod("ZodUnknown")), JsNull, JsUndefined, NoDef,
   ZodObject(None), ZodObject(Some(<<>>)), ZodUnion(None), ZodUnion(Some(<<>>))}

SecondField == {Zod("ZodString"), ZodOptional(Zod("ZodString")), JsUndefined}

RECURSIVE ZodValues(_)
ZodValues(n) ==
  IF n = 0 THEN ZodLeaves
  ELSE LET sub == ZodValues(n - 1)
       IN  ZodLeaves
           \cup {ZodArray(z) : z \in sub}
           \cup {ZodOptional(z) : z \in sub}
           \cup {ZodUnion(Some(<<z>>)) : z \in sub}
           \cup {ZodObject(Some(<< <<"a", z>> >>)) : z \in sub}
           \cup {ZodObject(Some(<< <<"a", z>>, <<"b", f>> >>)) : z \in sub, f \in SecondField}

RootArguments ==
  Descs(MaxDepth) \cup {JsonText(d) : d \in Descs(1)} \cup {BadJsonText, Zod("ZodString")}

ToVendorParams(z) ==
  /\ call = IdleCall
  /\ call' = [fn |-> "schemaToOpenAIParams", input |-> z, output |-> schemaToOpenAIParams(z)]
  /\ UNCHANGED <<execVars, toolVars, agentVars, sel, load>>

ToRuntimeSchema(s) ==
  /\ call = IdleCall
  /\ call' = [fn |-> "parseZodSchema", input |-> s, output |-> parseZodSchema(s)]
  /\ UNCHANGED <<execVars, toolVars, agentVars, sel, load>>

\* A tool definition built by createToolFromDB and advertised to the vendor:
\* schemaToOpenAIParams(tool.schema.parameters) with parameters from parseZodSchema
AdvertiseTool(s) ==
  /\ call = IdleCall
  /\ call' = [fn |-> "advertise", input |-> s,
              output |-> LET z == parseZodSchema(s)
                         IN  IF z = Thrown THEN Thrown ELSE schemaToOpenAIParams(z)]
  /\ UNCHANGED <<execVars, toolVars, agentVars, sel, load>>

(***************************************************************************)
(* The instruction renderer of createJAFAgentFromDB (part_004 53-58).      *)
(* A template is a sequence of tokens: the braces, characters that are no  *)
(* word characters, and words, a word being a maximal run of \w characters *)
(* (no two words are adjacent).  A run context is an Option of a record of *)
(* strings.                                                                *)
(***************************************************************************)
MaxTemplate == 5

Words == {"userId", "constructor"}
TemplateTokens == {"{", "}", "-"} \cup Words

WellFormedTemplate(t) ==
  \A i \in 1..(Len(t) - 1) : ~(t[i] \in Words /\ t[i + 1] \in Words)

HelloUserId == <<"Hello", " ", "{", "{", "userId", "}", "}">>

Templates ==
  { t \in UNION { [1..n -> TemplateTokens] : n \in 0..MaxTemplate } : WellFormedTemplate(t) }
  \cup {HelloUserId,
        <<"{", "{", "userId", "}", "}", "-", "{", "{", "sessionId", "}", "}">>,
        <<"{", "{", "{", "userId", "}", "}", "}">>}

Contexts ==
  {None, Some(<<>>), Some([userId |-> "u1"]), Some([userId |-> ""]),
   Some([userId |-> "u1", sessionId |-> "s1"])}

IsWord(token) == token \notin {"{", "}", "-", " "}

\* /\{\{(\w+)\}\}/ matches at position i of the template
MatchesAt(t, i) ==
  /\ i + 4 <= Len(t)
  /\ t[i] = "{" /\ t[i + 1] = "{" /\ IsWord(t[i + 2]) /\ t[i + 3] = "}" /\ t[i + 4] = "}"

FunctionText == "function Object() { [native code] }"

\* state.context?.[key]: an own field, a property inherited from
\* Object.prototype, or undefined
ContextValue(context, key) ==
  IF ~IsSome(context) THEN "undefined"
  ELSE IF key \in DOMAIN Get(context) THEN Get(context)[key]
  ELSE IF key \in ObjectPrototypeKeys THEN FunctionText
  ELSE "undefined"

TextOf(value) == IF value = "" THEN <<>> ELSE <<value>>

\* String.prototype.replace with the global pattern and the callback
\* (match, key) => state.context?.[key] || match
RECURSIVE renderInstructions(_, _, _)
renderInstructions(t, i, context) ==
  IF i > Len(t) THEN <<>>
  ELSE IF MatchesAt(t, i)
  THEN LET value == ContextValue(context, t[i + 2])
       IN  (IF Truthy(value) THEN TextOf(value) ELSE SubSeq(t, i, i + 4))
           \o renderInstructions(t, i + 5, context)
  ELSE <<t[i]>> \o renderInstructions(t, i + 1, context)

RenderInstructions(t, context) ==
  /\ call = IdleCall
  /\ call' = [fn |-> "instructions", input |-> [template |-> t, context |-> context],
              output |-> renderInstructions(t, 1, context)]
  /\ UNCHANGED <<execVars, toolVars, agentVars, sel, load>>

(***************************************************************************)
(* parseModelConfig (part_004 167-185) and the sampling parameters of the  *)
(* vendor requests (provider.ts 98-104, 152-158, 205-212).  A stored       *)
(* modelConfig is null, an object, or a string (the JSON text of an object *)
(* or of null, or no JSON); an object is a record of Options, a missing    *)
(* field being None.  Temperatures are counted in tenths.                  *)
(***************************************************************************)
DefaultTemperature == 7
DefaultMaxTokens == 2000
RequestDefaultTemperature == 7
RequestDefaultMaxTokens == 2000

ConfigFields == {"name", "temperature", "maxTokens", "topP"}

StoredObjects ==
  [name : {None, Some(""), Some("own")}, temperature : {None, Some(0), Some(2)},
   maxTokens : {None, Some(0), Some(100)}, topP : {None, Some(9)}]

StoredConfigs ==
  {JsNull, JsonText(JsNull), BadJsonText} \cup StoredObjects
  \cup {JsonText(o) : o \in StoredObjects}

ConfigModels == {"gpt-4", "claude-3-opus"}

defaultConfig(model) ==
  [name |-> Some(model), temperature |-> Some(DefaultTemperature),
   maxTokens |-> Some(DefaultMaxTokens), topP |-> None]

\* { ...a, ...b }
Spread(a, b) == [f \in ConfigFields |-> IF IsSome(b[f]) THEN b[f] ELSE a[f]]

parseModelConfig_DefaultsOnTop(config, model) ==
  IF config = JsNull THEN defaultConfig(model)
  ELSE IF config = BadJsonText \/ config = JsonText(JsNull) THEN Thrown
  ELSE LET parsed == IF "text" \in DOMAIN config THEN config.text ELSE config
       IN  Spread(parsed, defaultConfig(model))

parseModelConfig(config, model) ==
  IF config = JsNull THEN defaultConfig(model)
  ELSE IF config = BadJsonText THEN Thrown
  ELSE LET parsed == IF "text" \in DOMAIN config THEN config.text ELSE config
       IN  IF parsed = JsNull THEN Thrown
           ELSE [Spread(defaultConfig(model), parsed) EXCEPT
                   !.name = IF IsSome(parsed.name) /\ Get(parsed.name) # ""
                            THEN parsed.name ELSE Some(model)]

ParseModelConfig(config, model) ==
  /\ call = IdleCall
  /\ call' = [fn |-> "parseModelConfig", input |-> [config |-> config, model |-> model],
              output |-> parseModelConfig(config, model)]
  /\ UNCHANGED <<execVars, toolVars, agentVars, sel, load>>

Adapters == {"openai", "anthropic", "google"}

\* agent.modelConfig?.temperature || 0.7 and agent.modelConfig?.maxTokens || 2000,
\* the same expressions in the three adapters
OrDefault(field, default) ==
  IF IsSome(field) /\ Get(field) # 0 THEN Get(field) ELSE default

requestBody(adapter, modelConfig) ==
  [adapter |-> adapter,
   temperature |-> OrDefault(modelConfig.temperature, RequestDefaultTemperature),
   maxTokens |-> OrDefault(modelConfig.maxTokens, RequestDefaultMaxTokens)]

\* A request of an assembled agent: its modelConfig is the resolved one
VendorRequest(adapter, config, model) ==
  /\ call = IdleCall
  /\ parseModelConfig(config, model) # Thrown
  /\ call' = [fn |-> "requestBody", input |-> [config |-> config, model |-> model],
              output |-> [modelConfig |-> parseModelConfig(config, model),
                          body |-> requestBody(adapter, parseModelConfig(config, model))]]
  /\ UNCHANGED <<execVars, toolVars, agentVars, sel, load>>

InitHelpers ==
  /\ env = EnvNone
  /\ agentTable = [a \in AgentIds |-> Absent]
  /\ executions = {}
  /\ nextId = 1
  /\ now = 0
  /\ disp = [d \in Dispatches |-> OffDisp]
  /\ resp = [d \in Dispatches |-> IdleResp]
  /\ hist = [d \in Dispatches |-> IdleHist]
  /\ InitOther

NextHelpers ==
  \/ call = IdleCall /\ \E z \in ZodValues(MaxDepth) : ToVendorParams(z)
  \/ call = IdleCall /\ \E s \in RootArguments : ToRuntimeSchema(s)
  \/ call = IdleCall /\ \E s \in Descs(MaxDepth) : AdvertiseTool(s)
  \/ call = IdleCall /\ \E t \in Templates, c \in Contexts : RenderInstructions(t, c)
  \/ call = IdleCall /\ \E c \in StoredConfigs, m \in ConfigModels : ParseModelConfig(c, m)
  \/ call = IdleCall /\ \E a \in Adapters, c \in StoredConfigs, m \in ConfigModels :
                            VendorRequest(a, c, m)

SpecHelpers == InitHelpers /\ [][NextHelpers]_vars

\* C22: schemaToOpenAIParams returns for every argument a document of type
\* 'object'; a root that does not convert to an object is returned as the input
\* property of an object document, and a conversion that fails inside gives the
\* empty object document.
C22_VendorParamsAlwaysObject ==
  call.fn = "schemaToOpenAIParams" =>
    /\ call.output # Thrown
    /\ call.output.type = "object"
    /\ LET json == resolve(call.input)
       IN  /\ json = Thrown => call.output = EmptyParams
           /\ json # Thrown /\ TypeOf(json) # "object" =>
                /\ call.output.type = "object"
                /\ call.output.properties = << <<"input", json>> >>

C22_Witness ==
  /\ call.fn = "schemaToOpenAIParams"
  /\ call.input = ZodArray(ZodObject(Some(<< <<"a", JsUndefined>> >>)))
  /\ call.output = EmptyParams

\* A description whose leaves are string, number or boolean: arrays have items
\* and objects have properties
RECURSIVE Restricted(_)
Restricted(s) ==
  /\ s # JsNull
  /\ \/ s.type \in {"string", "number", "boolean"}
     \/ s.type = "array" /\ IsSome(s.items) /\ Restricted(Get(s.items))
     \/ /\ s.type = "object"
        /\ IsSome(s.properties)
        /\ Len(Get(s.properties)) > 0
        /\ \A i \in 1..Len(Get(s.properties)) : Restricted(Get(s.properties)[i][2])

\* The vendor document v has the type tag of the description s at every position
\* of s
RECURSIVE SameTags(_, _)
SameTags(s, v) ==
  /\ TypeOf(v) = s.type
  /\ s.type = "array" => "items" \in DOMAIN v /\ SameTags(Get(s.items), v.items)
  /\ s.type = "object" =>
       /\ "properties" \in DOMAIN v
       /\ \A i \in 1..Len(Get(s.properties)) :
            \E j \in 1..Len(v.properties) :
              /\ v.properties[j][1] = Get(s.properties)[i][1]
              /\ SameTags(Get(s.properties)[i][2], v.properties[j][2])

\* C23 as stated: for every description with string, number and boolean leaves
\* the converted runtime schema of the description has the tags of the
\* description at every position.
C23_TypeTagsRoundTrip ==
  call.fn = "advertise" /\ Restricted(call.input) =>
    call.output # Thrown /\ SameTags(call.input, call.output)

\* C23 amended: the same for every such description whose root is an object
\* description.
C23_TypeTagsRoundTripObjectRoot ==
  call.fn = "advertise" /\ Restricted(call.input) /\ call.input.type = "object" =>
    call.output # Thrown /\ SameTags(call.input, call.output)

C23_Witness ==
  /\ call.fn = "advertise"
  /\ call.input = ObjectOf(Some(<< <<"a", ArrayOf(Some(Tagged("number")))>>,
                                   <<"b", Tagged("string")>> >>))
  /\ call.output.properties[1][2].items = Tagged("number")

\* The runtime schema z is the kind the description s stands for: the tag's own
\* kind for string, number and boolean, an array of the kind of the items, an
\* object of the kinds of the properties, an open map of anything for an object
\* without properties, and the accept-anything type for every other description
RECURSIVE MatchesKind(_, _)
MatchesKind(s, z) ==
  IF s = JsNull THEN z = Zod("ZodUnknown")
  ELSE IF s.type = "string" THEN z = Zod("ZodString")
  ELSE IF s.type = "number" THEN z = Zod("ZodNumber")
  ELSE IF s.type = "boolean" THEN z = Zod("ZodBoolean")
  ELSE IF s.type = "array"
  THEN /\ z.typeName = "ZodArray"
       /\ MatchesKind(IF IsSome(s.items) THEN Get(s.items) ELSE JsNull, z.type)
  ELSE IF s.type = "object"
  THEN IF IsSome(s.properties)
       THEN /\ z.typeName = "ZodObject"
            /\ IsSome(z.shape)
            /\ Len(Get(z.shape)) = Len(Get(s.properties))
            /\ \A i \in 1..Len(Get(s.properties)) :
                 /\ Get(z.shape)[i][1] = Get(s.properties)[i][1]
                 /\ MatchesKind(Get(s.properties)[i][2], Get(z.shape)[i][2])
       ELSE z = ZodRecord(Zod("ZodUnknown"))
  ELSE z = Zod("ZodUnknown")

\* C24: parseZodSchema returns, without raising, the runtime kind that the
\* description it is given stands for, at the root as at nested positions.
C24_RuntimeKindsAtRootAndNested ==
  call.fn = "parseZodSchema" /\ call.input \in Descs(MaxDepth) =>
    call.output # Thrown /\ MatchesKind(call.input, call.output)

\* The rendering the claim describes: a placeholder whose key is a field of the
\* context is replaced by the value of the field, every other token stays
RECURSIVE RenderedByField(_, _, _)
RenderedByField(t, i, context) ==
  IF i > Len(t) THEN <<>>
  ELSE IF MatchesAt(t, i) /\ IsSome(context) /\ t[i + 2] \in DOMAIN Get(context)
  THEN TextOf(Get(context)[t[i + 2]]) \o RenderedByField(t, i + 5, context)
  ELSE IF MatchesAt(t, i)
  THEN SubSeq(t, i, i + 4) \o RenderedByField(t, i + 5, context)
  ELSE <<t[i]>> \o RenderedByField(t, i + 1, context)

\* C25: the renderer replaces every placeholder whose key is a field of the run
\* context by the value of the field and leaves every other placeholder as it
\* is; 'Hello {{userId}}' gives 'Hello u1' with {userId: 'u1'} and itself with {}.
C25_PlaceholdersByContextField ==
  call.fn = "instructions" =>
    /\ call.output = RenderedByField(call.input.template, 1, call.input.context)
    /\ call.input = [template |-> HelloUserId, context |-> Some([userId |-> "u1"])] =>
         call.output = <<"Hello", " ", "u1">>
    /\ call.input = [template |-> HelloUserId, context |-> Some(<<>>)] =>
         call.output = HelloUserId

\* The object that a stored modelConfig holds
StoredObject(config) == IF "text" \in DOMAIN config THEN config.text ELSE config

\* C26 as stated: the resolved configuration has every stored field, the defaults
\* 0.7 and 2000 for a temperature and a maxTokens that are not stored, and as its
\* name the stored name whenever the stored configuration has one, the model
\* identifier otherwise.
C26_ResolvedConfigStoredNameWins ==
  call.fn = "parseModelConfig" /\ call.output # Thrown =>
    LET out == call.output
        stored == IF call.input.config = JsNull
                  THEN [f \in ConfigFields |-> None] ELSE StoredObject(call.input.config)
    IN  /\ out.temperature = IF IsSome(stored.temperature) THEN stored.temperature ELSE Some(7)
        /\ out.maxTokens = IF IsSome(stored.maxTokens) THEN stored.maxTokens ELSE Some(2000)
        /\ out.topP = stored.topP
        /\ out.name = IF IsSome(stored.name) THEN stored.name ELSE Some(call.input.model)

\* C26 amended: the same, the stored name winning only when it is not empty.
C26_ResolvedConfigNonEmptyNameWins ==
  call.fn = "parseModelConfig" /\ call.output # Thrown =>
    LET out == call.output
        stored == IF call.input.config = JsNull
                  THEN [f \in ConfigFields |-> None] ELSE StoredObject(call.input.config)
    IN  /\ out.temperature = IF IsSome(stored.temperature) THEN stored.temperature ELSE Some(7)
        /\ out.maxTokens = IF IsSome(stored.maxTokens) THEN stored.maxTokens ELSE Some(2000)
        /\ out.topP = stored.topP
        /\ out.name = IF IsSome(stored.name) /\ stored.name # Some("")
                      THEN stored.name ELSE Some(call.input.model)

C26_Witness ==
  /\ call.fn = "parseModelConfig"
  /\ call.input.config = [name |-> Some("own"), temperature |-> Some(0),
                          maxTokens |-> None, topP |-> Some(9)]
  /\ call.output = [name |-> Some("own"), temperature |-> Some(0),
                    maxTokens |-> Some(2000), topP |-> Some(9)]

\* C30: the temperature and the max-token value of a vendor request are those of
\* the agent's resolved model configuration.
C30_RequestUsesResolvedConfig ==
  call.fn = "requestBody" =>
    /\ Some(call.output.body.temperature) = call.output.modelConfig.temperature
    /\ Some(call.output.body.maxTokens) = call.output.modelConfig.maxTokens

\* C28: a PUT that succeeds with a knowledgeSources array in its body leaves
\* exactly the entries of the array as the agent's knowledge sources, and a PUT
\* that succeeds without one leaves the agent's knowledge sources as they were.
C28_PutReplacesOrKeepsKnowledge ==
  [][\A r \in AgentWriters :
       /\ agentReq'[r] # agentReq[r]
       /\ agentReq'[r].kind = "PUT" /\ agentReq'[r].pc = "done" /\ agentReq'[r].status = 200
       => LET id == agentReq'[r].id
          IN  IF IsSome(agentReq'[r].sent)
              THEN knowledgeTable'[id] = Get(agentReq'[r].sent)
              ELSE knowledgeTable'[id] = knowledgeTable[id]]_vars

C28_Witness ==
  /\ agentReq["r1"].kind = "PUT" /\ agentReq["r1"].pc = "done" /\ agentReq["r1"].status = 200
  /\ agentReq["r1"].id = "a1"
  /\ agentReq["r1"].sent = Some(<<"doc", "url">>)
  /\ knowledgeTable["a1"] = <<"doc", "url">>

HasDoneFrame(d) == \E i \in 1..Len(resp[d].frames) : resp[d].frames[i].type = "done"

\* C29: once the done sentinel is among the frames sent to the client, the
\* completed update of the execution record has been written, and the record,
\* if it is read, is not in status 'running'.
C29_SentinelAfterCompletedUpdate ==
  \A d \in Dispatches :
    HasDoneFrame(d) =>
      /\ IsSome(hist[d].lastWrite) /\ Get(hist[d].lastWrite).status = "completed"
      /\ \A r \in executions : r.id = Get(disp[d].execId) => r.status # "running"

C29_Witness ==
  \E d \in Dispatches :
    /\ HasDoneFrame(d)
    /\ RowExists(disp[d].execId)
    /\ RowOf(disp[d].execId).status = "completed"

====
